---- MODULE Spec2Model ----
(***************************************************************************)
(* ScanShelf: the local inventory ledger.                                  *)
(*                                                                         *)
(* The model follows DatabaseService (database.service.ts), the SKU        *)
(* generator of InventoryCodeService, the product-creation flow of          *)
(* InventoryPage.saveProduct and the direct stock write of the scan        *)
(* modal (ScanProductDetailModalComponent.updateStock).                     *)
(* PinService, AuthService with the route guard, and the start-up of       *)
(* DatabaseService (initializeDatabase, performInitialization) have        *)
(* sections and specifications of their own over the same variables.       *)
(*                                                                         *)
(* Scheduling: JavaScript is single-threaded; a caller runs until its next *)
(* `await database.executeSql(...)`.  One step of a caller is therefore    *)
(* "execute the pending statement on the one shared connection, then run   *)
(* the continuation up to the next statement".  Callers interleave freely  *)
(* between such steps.  Text values (SKUs, brands) are sequences of        *)
(* one-character strings so that the string code can be computed.          *)
(***************************************************************************)
EXTENDS Integers, Sequences, FiniteSets, TLC

\* ------------------------------------------------------------------ bounds
\* Operations started over a run, all callers together.
MaxOps == 2
\* The clock stops here; one unit of time is five minutes (DEFAULT_CACHE_TTL).
MaxTime == 2

\* ------------------------------------------------------- program constants
\* Cache lifetimes in clock units: 5 * 60 * 1000 ms and 10 * 60 * 1000 ms.
DEFAULT_CACHE_TTL == 1
LONG_CACHE_TTL == 2

Callers == {"c1", "c2"}

\* ---------------------------------------------------------------- strings
Letters ==
  {"A","B","C","D","E","F","G","H","I","J","K","L","M",
   "N","O","P","Q","R","S","T","U","V","W","X","Y","Z"}

Digits == <<"0","1","2","3","4","5","6","7","8","9">>

DigitSet == {Digits[i] : i \in 1..10}

\* The lower-case letters the inputs of the model use.
Upper ==
  [ch \in {"a","e","g","i","k","m","n","o","p","r","s","u","l"} |->
     CASE ch = "a" -> "A" [] ch = "e" -> "E" [] ch = "g" -> "G"
       [] ch = "i" -> "I" [] ch = "k" -> "K" [] ch = "m" -> "M"
       [] ch = "n" -> "N" [] ch = "o" -> "O" [] ch = "p" -> "P"
       [] ch = "r" -> "R" [] ch = "s" -> "S" [] ch = "u" -> "U"
       [] ch = "l" -> "L"]

ToUpperCase(s) ==
  [i \in 1..Len(s) |-> IF s[i] \in DOMAIN Upper THEN Upper[s[i]] ELSE s[i]]

RECURSIVE Trim(_)
Trim(s) ==
  IF s = <<>> THEN s
  ELSE IF Head(s) = " " THEN Trim(Tail(s))
  ELSE IF s[Len(s)] = " " THEN Trim(SubSeq(s, 1, Len(s) - 1))
  ELSE s

Keep(s, allowed) == SelectSeq(s, LAMBDA ch : ch \in allowed)

RECURSIVE PadEnd(_, _, _)
PadEnd(s, n, ch) == IF Len(s) >= n THEN s ELSE PadEnd(Append(s, ch), n, ch)

RECURSIVE PadStart(_, _, _)
PadStart(s, n, ch) == IF Len(s) >= n THEN s ELSE PadStart(<<ch>> \o s, n, ch)

Substring3(s) == SubSeq(s, 1, IF Len(s) < 3 THEN Len(s) ELSE 3)

StartsWith(s, p) == Len(s) >= Len(p) /\ SubSeq(s, 1, Len(p)) = p

\* s.split('-'): the sequence of the parts between the separators.
RECURSIVE SplitFrom(_, _, _)
SplitFrom(s, cur, acc) ==
  IF s = <<>> THEN Append(acc, cur)
  ELSE IF Head(s) = "-" THEN SplitFrom(Tail(s), <<>>, Append(acc, cur))
  ELSE SplitFrom(Tail(s), Append(cur, Head(s)), acc)

Split(s) == SplitFrom(s, <<>>, <<>>)

DigitValue(ch) == (CHOOSE i \in 1..10 : Digits[i] = ch) - 1

\* parseInt: the value of the leading digits; NaN (here -1) when there are none.
RECURSIVE ParseDigits(_, _, _)
ParseDigits(s, acc, seen) ==
  IF s = <<>> \/ Head(s) \notin DigitSet
  THEN (IF seen THEN acc ELSE -1)
  ELSE ParseDigits(Tail(s), acc * 10 + DigitValue(Head(s)), TRUE)

ParseInt(s) == ParseDigits(s, 0, FALSE)

\* Number.prototype.toString for a natural number.
RECURSIVE NumToString(_)
NumToString(n) ==
  IF n < 10 THEN <<Digits[n + 1]>>
  ELSE Append(NumToString(n \div 10), Digits[(n % 10) + 1])

SetMax(S) == CHOOSE x \in S : \A y \in S : y <= x

\* ---------------------------------------------------------- code generator
Electronicos == "Electronicos"
General == "General"

\* CATEGORY_CODES, the entries the model's inputs can name.
CATEGORY_CODES ==
  [cat \in {Electronicos, "Alimentacion", "Ropa", "Otros"} |->
     CASE cat = Electronicos -> <<"E","L","E">>
       [] cat = "Alimentacion" -> <<"A","L","I">>
       [] cat = "Ropa" -> <<"R","O","P">>
       [] cat = "Otros" -> <<"O","T","R">>]

getCategoryCode(category) ==
  IF category \in DOMAIN CATEGORY_CODES THEN CATEGORY_CODES[category]
  ELSE <<"O","T","R">>

generateBrandCode(brand) ==
  IF brand = <<>> \/ Trim(brand) = <<>> THEN <<"G","E","N">>
  ELSE LET cleanBrand == ToUpperCase(Trim(brand))
           alphaOnly == Keep(cleanBrand, Letters)
       IN IF Len(cleanBrand) <= 3 THEN PadEnd(cleanBrand, 3, "X")
          ELSE IF Len(alphaOnly) >= 3 THEN Substring3(alphaOnly)
          ELSE PadEnd(Substring3(Keep(cleanBrand, Letters \cup DigitSet)), 3, "X")

\* existingSKUs is an array in the code; only the maximum of its numbers is
\* used, so a set carries the same information.
generateCustomSKU(category, brand, existingSKUs) ==
  LET skuPrefix == getCategoryCode(category) \o <<"-">> \o generateBrandCode(brand) \o <<"-">>
      matchingSKUs == {sku \in existingSKUs : StartsWith(sku, skuPrefix)}
      numberOf(sku) == IF Len(Split(sku)) >= 3 THEN ParseInt(Split(sku)[3]) ELSE -1
      existingNumbers == {numberOf(sku) : sku \in matchingSKUs} \ {-1}
      nextNumber == IF existingNumbers # {} THEN SetMax(existingNumbers) + 1 ELSE 1
  IN skuPrefix \o PadStart(NumToString(nextNumber), 3, "0")


\* ------------------------------------------------------------------- values
\* The first row of sampleProducts in forceLoadSampleData.
SampleSku == <<"I","P","H","1","5","P","R","O","0","0","1">>
SampleBarcode == "1234567890123"
SampleStock == 10

\* The result of a lookup that finds no row (null in the code).
NoProduct == [id |-> 0, sku |-> <<>>, barcode |-> "", stock |-> 0]

\* The reasons the CHECK constraint of the movements table admits.
ValidReasons == {"venta", "perdida", "ingreso", "devolucion"}

MovementTypes == {"entrada", "salida", "ajuste"}

EmptyMap == <<>>

VARIABLES
  db,          \* the connection's view of the tables and of sqlite_sequence
  inTx,        \* a BEGIN TRANSACTION is open on the connection
  txSnap,      \* the tables as they were at that BEGIN (what ROLLBACK restores)
  lastRowid,   \* last_insert_rowid() of the connection
  cache,       \* DatabaseService.cache, one map per family of keys
  subjects,    \* the values last published on products$ / categories$ / movements$
  now,         \* Date.now() in units of DEFAULT_CACHE_TTL
  pc,          \* per caller: the statement it awaits, or "idle"
  op,          \* per caller: the call it is running (or ran last) and its arguments
  loc,         \* per caller: the local variables of that call
  result,      \* per caller: how its last call ended
  opsStarted,  \* calls started so far
  opsLimit,    \* calls the run may start (a bound of the model)
  localStorage,\* PinService's two items: the PIN configuration and the failed attempts
  pinLog,      \* history: how the attempts were last cleared, the answers since,
               \* and the answers that came before the last successful verifyPin
  auth,        \* AuthService: the current user and the deadline of sessionTimer
  service      \* DatabaseService: isReady, initializationPromise and the run of
               \* performInitialization

vars ==
  <<db, inTx, txSnap, lastRowid, cache, subjects, now, pc, op, loc, result, opsStarted,
    opsLimit, localStorage, pinLog, auth, service>>

\* ----------------------------------------------------------- the SQL store
\* What is durably stored: an open transaction's writes are not.
Committed == IF inTx THEN txSnap ELSE db

HasProduct(d, id) == \E p \in d.products : p.id = id

\* SELECT * FROM products WHERE id = ?  (rows.item(0) or null)
SelectProductById(d, id) ==
  IF HasProduct(d, id) THEN CHOOSE p \in d.products : p.id = id ELSE NoProduct

FirstRow(rows) ==
  IF rows = {} THEN NoProduct
  ELSE CHOOSE p \in rows : \A q \in rows : p.id <= q.id

\* SELECT * FROM products WHERE sku = ?  (rows.item(0) or null)
SelectProductBySku(d, sku) == FirstRow({p \in d.products : p.sku = sku})

\* SELECT * FROM products WHERE barcode = ?  (rows.item(0) or null)
SelectProductByBarcode(d, barcode) == FirstRow({p \in d.products : p.barcode = barcode})

\* INSERT INTO products (...): AUTOINCREMENT takes the next number of sqlite_sequence.
InsertProduct(d, sku, barcode, stock) ==
  [d EXCEPT !.products = @ \cup {[id |-> d.seqProducts + 1, sku |-> sku,
                                  barcode |-> barcode, stock |-> stock]},
            !.seqProducts = @ + 1]

\* UPDATE products SET sku = ?, barcode = ?, stock = ?, ... WHERE id = ?
UpdateProductRow(d, id, sku, barcode, stock) ==
  [d EXCEPT !.products =
     {IF p.id = id THEN [id |-> id, sku |-> sku, barcode |-> barcode, stock |-> stock]
      ELSE p : p \in @}]

\* UPDATE products SET stock = ? WHERE id = ?
UpdateStockRow(d, id, stock) ==
  [d EXCEPT !.products = {IF p.id = id THEN [p EXCEPT !.stock = stock] ELSE p : p \in @}]

\* INSERT OR REPLACE keyed on the product: the new row takes the place of the
\* product's earlier rows.
InsertMovement_Replace(d, productId, type, quantity, previousStock, newStock, reason) ==
  [d EXCEPT !.movements = {m \in @ : m.productId # productId}
                            \cup {[id |-> d.seqMovements + 1, productId |-> productId,
                                   type |-> type, quantity |-> quantity,
                                   previousStock |-> previousStock,
                                   newStock |-> newStock, reason |-> reason]},
            !.seqMovements = @ + 1]

\* INSERT INTO movements (...)
InsertMovement(d, productId, type, quantity, previousStock, newStock, reason) ==
  [d EXCEPT !.movements = @ \cup {[id |-> d.seqMovements + 1, productId |-> productId,
                                   type |-> type, quantity |-> quantity,
                                   previousStock |-> previousStock,
                                   newStock |-> newStock, reason |-> reason]},
            !.seqMovements = @ + 1]

\* The CHECK constraints of the movements table.
MovementChecksPass(type, quantity, reason) ==
  type \in MovementTypes /\ quantity > 0 /\ reason \in ValidReasons

\* ----------------------------------------------------------------- the cache
\* An entry that expires as soon as its age reaches its ttl.
Expired_AtTtl(e) == now - e.timestamp >= e.ttl

Expired(e) == now - e.timestamp > e.ttl

Remove(m, k) == [x \in DOMAIN m \ {k} |-> m[x]]

Put(m, k, data, ttl) ==
  [x \in DOMAIN m \cup {k} |->
     IF x = k THEN [data |-> data, timestamp |-> now, ttl |-> ttl] ELSE m[x]]

\* getCache returns the entry's data: the key is present and has not expired.
Fresh(m, k) == k \in DOMAIN m /\ ~Expired(m[k])

\* getCache deletes an expired entry it finds.
getCache(m, k) == IF k \in DOMAIN m /\ Expired(m[k]) THEN Remove(m, k) ELSE m

setCache(m, k, data) == Put(m, k, data, DEFAULT_CACHE_TTL)

invalidateProductCache(ch) ==
  [ch EXCEPT !.fixed = Remove(Remove(Remove(@, "all_products"), "low_stock_products"),
                              "product_stats")]

clearCache(ch, family, k) == [ch EXCEPT ![family] = Remove(@, k)]


\* ------------------------------------------------------------------ callers
NoOp ==
  [name |-> "none", id |-> 0, type |-> "", quantity |-> 0, reason |-> "",
   sku |-> <<>>, barcode |-> "", hasStock |-> FALSE, stock |-> 0,
   category |-> "", brand |-> <<>>, code |-> <<>>]

InitLoc ==
  [product |-> NoProduct, previousStock |-> 0, newStock |-> 0,
   existingSKUs |-> {}, existingBarcodes |-> {},
   products |-> {}, categories |-> {}, value |-> 0]

NoResult == [status |-> "none", value |-> 0]

\* localStorage without the items of PinService: getItem answers null for both.
NoConfig == [pin |-> <<>>, createdAt |-> 0, lastUsed |-> 0]

EmptyStorage == [scanshelf_pin_config |-> NoConfig, scanshelf_pin_attempts |-> <<>>]

NoPinLog == [clearedBy |-> "none", answers |-> <<>>, before |-> <<>>]

\* AuthService without a user: currentUserSubject holds null, no timer runs.
NoUser == [guest |-> FALSE, timestamp |-> 0, lastActivity |-> 0, sessionId |-> ""]

NoTimer == 0 - 1

NoSession == [currentUser |-> NoUser, sessionTimer |-> NoTimer]

\* The service once initialization has completed: the promise kept in
\* initializationPromise is fulfilled and isReady is set.  `started` counts the
\* runs of performInitialization, `at` is where the run stands, `resume` where
\* it goes on after an await of isDatabaseReady, `storeFailed` whether a call
\* into the store (platform, plugin, SQL) has failed.
Ready ==
  [isReady |-> TRUE, initializationPromise |-> "resolved", started |-> 1,
   at |-> "done", resume |-> "", storeFailed |-> FALSE]

\* sqlite.create + createTables + ensureDataIntegrity (forceLoadSampleData into the
\* empty tables) + loadInitialCacheData, as performInitialization leaves them.
InitDb ==
  [products |-> {[id |-> 1, sku |-> SampleSku, barcode |-> SampleBarcode,
                  stock |-> SampleStock]},
   movements |-> {}, categories |-> {}, seqProducts |-> 1, seqMovements |-> 0,
   seqCategories |-> 0]

Entry(data, ttl) == [data |-> data, timestamp |-> 0, ttl |-> ttl]

Init ==
  /\ db = InitDb
  /\ inTx = FALSE
  /\ txSnap = InitDb
  /\ lastRowid = 1
  /\ cache = [fixed |-> [k \in {"all_products", "all_categories", "recent_movements"} |->
                           CASE k = "all_products" -> Entry(InitDb.products, DEFAULT_CACHE_TTL)
                             [] k = "all_categories" -> Entry({}, DEFAULT_CACHE_TTL)
                             [] k = "recent_movements" -> Entry({}, DEFAULT_CACHE_TTL)],
              product |-> EmptyMap, sku |-> EmptyMap, barcode |-> EmptyMap,
              category |-> EmptyMap]
  /\ subjects = [products |-> InitDb.products, categories |-> {}, movements |-> {}]
  /\ now = 0
  /\ pc = [c \in Callers |-> "idle"]
  /\ op = [c \in Callers |-> NoOp]
  /\ loc = [c \in Callers |-> InitLoc]
  /\ result = [c \in Callers |-> NoResult]
  /\ opsStarted = 0
  /\ opsLimit = MaxOps
  /\ localStorage = EmptyStorage
  /\ pinLog = NoPinLog
  /\ auth = NoSession
  /\ service = Ready

\* The call of caller c ends: it returns value, or throws (status names the error).
Finish(c, status, value) ==
  /\ pc' = [pc EXCEPT ![c] = "idle"]
  /\ loc' = [loc EXCEPT ![c] = InitLoc]
  /\ result' = [result EXCEPT ![c] = [status |-> status, value |-> value]]
  /\ UNCHANGED <<localStorage, pinLog, auth, service>>

\* Caller c goes on to await the statement `label` with the locals `l`.
Goto(c, label, l) ==
  /\ pc' = [pc EXCEPT ![c] = label]
  /\ loc' = [loc EXCEPT ![c] = l]
  /\ UNCHANGED <<result, localStorage, pinLog, auth, service>>

CanStart(c) == pc[c] = "idle" /\ opsStarted < opsLimit

Begin(c, o) ==
  /\ op' = [op EXCEPT ![c] = o]
  /\ opsStarted' = opsStarted + 1
  /\ UNCHANGED opsLimit

\* Date.now() advances between any two steps.
Tick ==
  /\ now < MaxTime
  /\ now' = now + 1
  /\ UNCHANGED <<db, inTx, txSnap, lastRowid, cache, subjects, pc, op, loc, result, opsStarted, opsLimit>>
  /\ UNCHANGED <<localStorage, pinLog, auth, service>>

\* ------------------------------------------------------ executeTransaction
\* BEGIN TRANSACTION: SQLite refuses it while a transaction is open on the
\* connection; the catch block then issues ROLLBACK.
TxBegin(c, here, next, rollback) ==
  /\ pc[c] = here
  /\ IF inTx
       THEN /\ Goto(c, rollback, loc[c])
            /\ UNCHANGED <<inTx, txSnap>>
       ELSE /\ Goto(c, next, loc[c])
            /\ inTx' = TRUE
            /\ txSnap' = db
  /\ UNCHANGED <<db, lastRowid, cache, subjects, now, op, opsStarted, opsLimit>>

\* COMMIT: fails when no transaction is open (another call's ROLLBACK ended it).
TxCommit(c, here, next, rollback) ==
  /\ pc[c] = here
  /\ IF inTx
       THEN /\ Goto(c, next, loc[c])
            /\ inTx' = FALSE
       ELSE /\ Goto(c, rollback, loc[c])
            /\ UNCHANGED inTx
  /\ UNCHANGED <<db, txSnap, lastRowid, cache, subjects, now, op, opsStarted, opsLimit>>

\* ROLLBACK in the catch block, then `throw error`.  A ROLLBACK with no open
\* transaction fails and that failure is only logged.
TxRollback(c, here) ==
  /\ pc[c] = here
  /\ IF inTx
       THEN /\ db' = txSnap
            /\ inTx' = FALSE
       ELSE UNCHANGED <<db, inTx>>
  /\ Finish(c, "transaction", 0)
  /\ UNCHANGED <<txSnap, lastRowid, cache, subjects, now, op, opsStarted, opsLimit>>

\* ------------------------------------------- refreshCache / loadInitialCacheData
\* invalidation done, the call awaits getProductsFromDB
RcProducts(c) ==
  /\ pc[c] = "rc_products"
  /\ Goto(c, "rc_categories", [loc[c] EXCEPT !.products = db.products])
  /\ UNCHANGED <<db, inTx, txSnap, lastRowid, cache, subjects, now, op, opsStarted, opsLimit>>

\* getCategoriesFromDB: SELECT * FROM categories WHERE isActive = 1
ActiveCategories(d) == {k \in d.categories : k.isActive}

RcCategories(c) ==
  /\ pc[c] = "rc_categories"
  /\ Goto(c, "rc_movements", [loc[c] EXCEPT !.categories = ActiveCategories(db)])
  /\ UNCHANGED <<db, inTx, txSnap, lastRowid, cache, subjects, now, op, opsStarted, opsLimit>>

\* getMovementsFromDB returns; the three subjects and the three cache keys are
\* written; the call that asked for the refresh returns.
RcMovements(c) ==
  /\ pc[c] = "rc_movements"
  /\ subjects' = [products |-> loc[c].products, categories |-> loc[c].categories,
                  movements |-> db.movements]
  /\ cache' = [cache EXCEPT !.fixed =
                 setCache(setCache(setCache(@, "all_products", loc[c].products),
                                   "all_categories", loc[c].categories),
                          "recent_movements", db.movements)]
  /\ Finish(c, "ok", loc[c].value)
  /\ UNCHANGED <<db, inTx, txSnap, lastRowid, now, op, opsStarted, opsLimit>>

\* ------------------------------------------------------------- addMovement
MovementInputs ==
  { [type |-> "entrada", quantity |-> 5, reason |-> "ingreso"],
    [type |-> "salida", quantity |-> 3, reason |-> "venta"],
    [type |-> "salida", quantity |-> 8, reason |-> "venta"],
    [type |-> "salida", quantity |-> 15, reason |-> "venta"],
    [type |-> "ajuste", quantity |-> 7, reason |-> "perdida"],
    [type |-> "entrada", quantity |-> 5, reason |-> "Entrada de inventario"] }

ProductIdInputs == {1, 2}

NewStock(type, previousStock, quantity) ==
  CASE type = "entrada" -> previousStock + quantity
    [] type = "salida" -> previousStock - quantity
    [] type = "ajuste" -> quantity
    [] OTHER -> previousStock

\* addMovement once getProductById has answered with `product`.
AmChecked(c, o, product) ==
  IF product.id = 0 THEN Finish(c, "notfound", 0)
  ELSE IF o.type = "salida" /\ product.stock < o.quantity THEN Finish(c, "insufficient", 0)
  ELSE Goto(c, "am_begin",
            [loc[c] EXCEPT !.product = product,
                           !.previousStock = product.stock,
                           !.newStock = NewStock(o.type, product.stock, o.quantity)])

\* The call: the argument checks, then getProductById's look into the cache.
AmStart(c, id, m) ==
  /\ CanStart(c)
  /\ LET o == [NoOp EXCEPT !.name = "addMovement", !.id = id, !.type = m.type,
                            !.quantity = m.quantity, !.reason = m.reason]
     IN /\ Begin(c, o)
        /\ cache' = [cache EXCEPT !.product = getCache(@, id)]
        /\ IF Fresh(cache.product, id)
             THEN AmChecked(c, o, cache.product[id].data)
             ELSE Goto(c, "am_select", loc[c])
  /\ UNCHANGED <<db, inTx, txSnap, lastRowid, subjects, now>>

\* getProductById: SELECT * FROM products WHERE id = ?
AmSelect(c) ==
  /\ pc[c] = "am_select"
  /\ LET product == SelectProductById(db, op[c].id)
     IN /\ cache' = IF product.id # 0
                      THEN [cache EXCEPT !.product = setCache(@, op[c].id, product)]
                      ELSE cache
        /\ AmChecked(c, op[c], product)
  /\ UNCHANGED <<db, inTx, txSnap, lastRowid, subjects, now, op, opsStarted, opsLimit>>

AmBegin(c) == TxBegin(c, "am_begin", "am_insert", "am_rollback")

\* INSERT INTO movements: the CHECK on reason can refuse it.
AmInsert(c) ==
  /\ pc[c] = "am_insert"
  /\ IF MovementChecksPass(op[c].type, op[c].quantity, op[c].reason)
       THEN /\ db' = InsertMovement(db, op[c].id, op[c].type, op[c].quantity,
                                    loc[c].previousStock, loc[c].newStock, op[c].reason)
            /\ lastRowid' = db.seqMovements + 1
            /\ Goto(c, "am_update", loc[c])
       ELSE /\ UNCHANGED <<db, lastRowid>>
            /\ Goto(c, "am_rollback", loc[c])
  /\ UNCHANGED <<inTx, txSnap, cache, subjects, now, op, opsStarted, opsLimit>>

\* UPDATE products SET stock = ? WHERE id = ?
AmUpdate(c) ==
  /\ pc[c] = "am_update"
  /\ db' = UpdateStockRow(db, op[c].id, loc[c].newStock)
  /\ Goto(c, "am_commit", loc[c])
  /\ UNCHANGED <<inTx, txSnap, lastRowid, cache, subjects, now, op, opsStarted, opsLimit>>

AmCommit(c) == TxCommit(c, "am_commit", "am_rowid", "am_rollback")

AmRollback(c) == TxRollback(c, "am_rollback")

\* SELECT last_insert_rowid(), then the invalidations and refreshCache.
AmRowid(c) ==
  /\ pc[c] = "am_rowid"
  /\ cache' = invalidateProductCache(
                clearCache(clearCache(cache, "fixed", "recent_movements"),
                           "product", op[c].id))
  /\ Goto(c, "rc_products", [loc[c] EXCEPT !.value = lastRowid])
  /\ UNCHANGED <<db, inTx, txSnap, lastRowid, subjects, now, op, opsStarted, opsLimit>>

addMovement(c) ==
  \/ \E id \in ProductIdInputs, m \in MovementInputs : AmStart(c, id, m)
  \/ AmSelect(c)
  \/ AmBegin(c)
  \/ AmInsert(c)
  \/ AmUpdate(c)
  \/ AmCommit(c)
  \/ AmRollback(c)
  \/ AmRowid(c)

\* -------------------------------------------------------------- addProduct
OtherSku == <<"A","R","Z","0","0","1">>
OtherBarcode == "9876543210987"

ProductInputs ==
  { [sku |-> SampleSku, barcode |-> SampleBarcode, stock |-> 5],
    [sku |-> OtherSku, barcode |-> OtherBarcode, stock |-> -1] }

ApStart(c, p) ==
  /\ CanStart(c)
  /\ Begin(c, [NoOp EXCEPT !.name = "addProduct", !.sku = p.sku, !.barcode = p.barcode,
                           !.hasStock = TRUE, !.stock = p.stock])
  /\ Goto(c, "ap_insert", loc[c])
  /\ UNCHANGED <<db, inTx, txSnap, lastRowid, cache, subjects, now>>

\* INSERT INTO products (no uniqueness or range check, in the code or the schema),
\* then invalidateProductCache and refreshCache.
ApInsert(c) ==
  /\ pc[c] = "ap_insert"
  /\ db' = InsertProduct(db, op[c].sku, op[c].barcode, op[c].stock)
  /\ lastRowid' = db.seqProducts + 1
  /\ cache' = invalidateProductCache(cache)
  /\ Goto(c, "rc_products", [loc[c] EXCEPT !.value = db.seqProducts + 1])
  /\ UNCHANGED <<inTx, txSnap, subjects, now, op, opsStarted, opsLimit>>

addProduct(c) ==
  \/ \E p \in ProductInputs : ApStart(c, p)
  \/ ApInsert(c)

\* ----------------------------------------------------------- updateProduct
\* A partial product: an absent field is <<>>, "" or hasStock = FALSE.
PartialInputs ==
  { [sku |-> <<>>, barcode |-> "", hasStock |-> TRUE, stock |-> 3],
    [sku |-> <<>>, barcode |-> "", hasStock |-> TRUE, stock |-> -2],
    [sku |-> SampleSku, barcode |-> "", hasStock |-> FALSE, stock |-> 0],
    [sku |-> <<>>, barcode |-> SampleBarcode, hasStock |-> FALSE, stock |-> 0] }

\* updateProduct from the barcode check on.  Answers where the call goes next
\* and what the cache looks like then.
UpFromBarcode(o, existing, ch) ==
  IF o.barcode # "" /\ o.barcode # existing.barcode
  THEN LET ch1 == [ch EXCEPT !.barcode = getCache(@, o.barcode)]
       IN IF Fresh(ch.barcode, o.barcode)
          THEN IF ch.barcode[o.barcode].data.id # o.id
               THEN [pc |-> "idle", status |-> "conflict", cache |-> ch1]
               ELSE [pc |-> "up_update", status |-> "", cache |-> ch1]
          ELSE [pc |-> "up_barcode", status |-> "", cache |-> ch1]
  ELSE [pc |-> "up_update", status |-> "", cache |-> ch]

\* updateProduct from the SKU check on.
UpFromSku(o, existing, ch) ==
  IF o.sku # <<>> /\ o.sku # existing.sku
  THEN LET ch1 == [ch EXCEPT !.sku = getCache(@, o.sku)]
       IN IF Fresh(ch.sku, o.sku)
          THEN IF ch.sku[o.sku].data.id # o.id
               THEN [pc |-> "idle", status |-> "conflict", cache |-> ch1]
               ELSE UpFromBarcode(o, existing, ch1)
          ELSE [pc |-> "up_sku", status |-> "", cache |-> ch1]
  ELSE UpFromBarcode(o, existing, ch)

\* updateProduct once getProductById has answered with `existing`.
UpFromProduct(o, existing, ch) ==
  IF existing.id = 0 THEN [pc |-> "idle", status |-> "notfound", cache |-> ch]
  ELSE UpFromSku(o, existing, ch)

UpGo(c, existing, to) ==
  /\ cache' = to.cache
  /\ IF to.pc = "idle" THEN Finish(c, to.status, 0)
     ELSE Goto(c, to.pc, [loc[c] EXCEPT !.product = existing])

UpStart(c, id, partial) ==
  /\ CanStart(c)
  /\ LET o == [NoOp EXCEPT !.name = "updateProduct", !.id = id, !.sku = partial.sku,
                            !.barcode = partial.barcode, !.hasStock = partial.hasStock,
                            !.stock = partial.stock]
         ch == [cache EXCEPT !.product = getCache(@, id)]
     IN /\ Begin(c, o)
        /\ IF Fresh(cache.product, id)
             THEN UpGo(c, cache.product[id].data, UpFromProduct(o, cache.product[id].data, ch))
             ELSE /\ cache' = ch
                  /\ Goto(c, "up_select", loc[c])
  /\ UNCHANGED <<db, inTx, txSnap, lastRowid, subjects, now>>

\* getProductById: SELECT * FROM products WHERE id = ?
UpSelect(c) ==
  /\ pc[c] = "up_select"
  /\ LET existing == SelectProductById(db, op[c].id)
         ch == IF existing.id # 0
                 THEN [cache EXCEPT !.product = setCache(@, op[c].id, existing)]
                 ELSE cache
     IN UpGo(c, existing, UpFromProduct(op[c], existing, ch))
  /\ UNCHANGED <<db, inTx, txSnap, lastRowid, subjects, now, op, opsStarted, opsLimit>>

\* getProductBySKU: SELECT * FROM products WHERE sku = ?
UpSku(c) ==
  /\ pc[c] = "up_sku"
  /\ LET found == SelectProductBySku(db, op[c].sku)
         ch == IF found.id # 0
                 THEN [cache EXCEPT !.sku = Put(@, op[c].sku, found, LONG_CACHE_TTL)]
                 ELSE cache
     IN UpGo(c, loc[c].product,
             IF found.id # 0 /\ found.id # op[c].id
               THEN [pc |-> "idle", status |-> "conflict", cache |-> ch]
               ELSE UpFromBarcode(op[c], loc[c].product, ch))
  /\ UNCHANGED <<db, inTx, txSnap, lastRowid, subjects, now, op, opsStarted, opsLimit>>

\* getProductByBarcode: SELECT * FROM products WHERE barcode = ?
UpBarcode(c) ==
  /\ pc[c] = "up_barcode"
  /\ LET found == SelectProductByBarcode(db, op[c].barcode)
         ch == IF found.id # 0
                 THEN [cache EXCEPT !.barcode = Put(@, op[c].barcode, found, LONG_CACHE_TTL)]
                 ELSE cache
     IN UpGo(c, loc[c].product,
             IF found.id # 0 /\ found.id # op[c].id
               THEN [pc |-> "idle", status |-> "conflict", cache |-> ch]
               ELSE [pc |-> "up_update", status |-> "", cache |-> ch])
  /\ UNCHANGED <<db, inTx, txSnap, lastRowid, subjects, now, op, opsStarted, opsLimit>>

\* updateData = { ...existingProduct, ...product }
MergedSku(o, existing) == IF o.sku # <<>> THEN o.sku ELSE existing.sku
MergedBarcode(o, existing) == IF o.barcode # "" THEN o.barcode ELSE existing.barcode
MergedStock(o, existing) == IF o.hasStock THEN o.stock ELSE existing.stock

\* UPDATE products SET ..., stock = ?, ... WHERE id = ?  with the merged record,
\* then the invalidations and refreshCache; the call returns rowsAffected > 0.
UpUpdate(c) ==
  /\ pc[c] = "up_update"
  /\ db' = UpdateProductRow(db, op[c].id, MergedSku(op[c], loc[c].product),
                            MergedBarcode(op[c], loc[c].product),
                            MergedStock(op[c], loc[c].product))
  /\ cache' = clearCache(invalidateProductCache(cache), "product", op[c].id)
  /\ Goto(c, "rc_products",
          [loc[c] EXCEPT !.value = IF HasProduct(db, op[c].id) THEN 1 ELSE 0])
  /\ UNCHANGED <<inTx, txSnap, lastRowid, subjects, now, op, opsStarted, opsLimit>>

updateProduct(c) ==
  \/ \E id \in ProductIdInputs, partial \in PartialInputs : UpStart(c, id, partial)
  \/ UpSelect(c)
  \/ UpSku(c)
  \/ UpBarcode(c)
  \/ UpUpdate(c)

\* ----------------------------------------------------------- deleteProduct
DpChecked(c, existing) ==
  IF existing.id = 0 THEN Finish(c, "notfound", 0)
  ELSE Goto(c, "dp_begin", [loc[c] EXCEPT !.product = existing])

DpStart(c, id) ==
  /\ CanStart(c)
  /\ Begin(c, [NoOp EXCEPT !.name = "deleteProduct", !.id = id])
  /\ cache' = [cache EXCEPT !.product = getCache(@, id)]
  /\ IF Fresh(cache.product, id)
       THEN DpChecked(c, cache.product[id].data)
       ELSE Goto(c, "dp_select", loc[c])
  /\ UNCHANGED <<db, inTx, txSnap, lastRowid, subjects, now>>

\* getProductById: SELECT * FROM products WHERE id = ?
DpSelect(c) ==
  /\ pc[c] = "dp_select"
  /\ LET existing == SelectProductById(db, op[c].id)
     IN /\ cache' = IF existing.id # 0
                      THEN [cache EXCEPT !.product = setCache(@, op[c].id, existing)]
                      ELSE cache
        /\ DpChecked(c, existing)
  /\ UNCHANGED <<db, inTx, txSnap, lastRowid, subjects, now, op, opsStarted, opsLimit>>

DpBegin(c) == TxBegin(c, "dp_begin", "dp_delmov", "dp_rollback")

\* DELETE FROM movements WHERE productId = ?
DpDeleteMovements(c) ==
  /\ pc[c] = "dp_delmov"
  /\ db' = [db EXCEPT !.movements = {m \in @ : m.productId # op[c].id}]
  /\ Goto(c, "dp_delprod", loc[c])
  /\ UNCHANGED <<inTx, txSnap, lastRowid, cache, subjects, now, op, opsStarted, opsLimit>>

\* DELETE FROM products WHERE id = ?
DpDeleteProduct(c) ==
  /\ pc[c] = "dp_delprod"
  /\ db' = [db EXCEPT !.products = {p \in @ : p.id # op[c].id}]
  /\ Goto(c, "dp_commit", loc[c])
  /\ UNCHANGED <<inTx, txSnap, lastRowid, cache, subjects, now, op, opsStarted, opsLimit>>

\* COMMIT, then the invalidations and refreshCache.
DpCommit(c) ==
  /\ pc[c] = "dp_commit"
  /\ IF inTx
       THEN /\ inTx' = FALSE
            /\ cache' = clearCache(invalidateProductCache(cache), "product", op[c].id)
            /\ Goto(c, "rc_products", [loc[c] EXCEPT !.value = 1])
       ELSE /\ Goto(c, "dp_rollback", loc[c])
            /\ UNCHANGED <<inTx, cache>>
  /\ UNCHANGED <<db, txSnap, lastRowid, subjects, now, op, opsStarted, opsLimit>>

DpRollback(c) == TxRollback(c, "dp_rollback")

deleteProduct(c) ==
  \/ \E id \in ProductIdInputs : DpStart(c, id)
  \/ DpSelect(c)
  \/ DpBegin(c)
  \/ DpDeleteMovements(c)
  \/ DpDeleteProduct(c)
  \/ DpCommit(c)
  \/ DpRollback(c)

\* ------------------------------------------------------------ clearAllData
CaStart(c) ==
  /\ CanStart(c)
  /\ Begin(c, [NoOp EXCEPT !.name = "clearAllData"])
  /\ Goto(c, "ca_begin", loc[c])
  /\ UNCHANGED <<db, inTx, txSnap, lastRowid, cache, subjects, now>>

CaBegin(c) == TxBegin(c, "ca_begin", "ca_delmov", "ca_rollback")

\* DELETE FROM movements
CaDeleteMovements(c) ==
  /\ pc[c] = "ca_delmov"
  /\ db' = [db EXCEPT !.movements = {}]
  /\ Goto(c, "ca_delprod", loc[c])
  /\ UNCHANGED <<inTx, txSnap, lastRowid, cache, subjects, now, op, opsStarted, opsLimit>>

\* DELETE FROM products
CaDeleteProducts(c) ==
  /\ pc[c] = "ca_delprod"
  /\ db' = [db EXCEPT !.products = {}]
  /\ Goto(c, "ca_delcat", loc[c])
  /\ UNCHANGED <<inTx, txSnap, lastRowid, cache, subjects, now, op, opsStarted, opsLimit>>

\* DELETE FROM categories; then DELETE FROM users and DELETE FROM app_settings,
\* two tables the model does not hold.
CaDeleteCategories(c) ==
  /\ pc[c] = "ca_delcat"
  /\ db' = [db EXCEPT !.categories = {}]
  /\ Goto(c, "ca_commit", loc[c])
  /\ UNCHANGED <<inTx, txSnap, lastRowid, cache, subjects, now, op, opsStarted, opsLimit>>

\* COMMIT, then clearCache() of every key; initializeDefaultData is awaited next.
CaCommit(c) ==
  /\ pc[c] = "ca_commit"
  /\ IF inTx
       THEN /\ inTx' = FALSE
            /\ cache' = [fixed |-> EmptyMap, product |-> EmptyMap, sku |-> EmptyMap,
                         barcode |-> EmptyMap, category |-> EmptyMap]
            /\ Goto(c, "ca_count", loc[c])
       ELSE /\ Goto(c, "ca_rollback", loc[c])
            /\ UNCHANGED <<inTx, cache>>
  /\ UNCHANGED <<db, txSnap, lastRowid, subjects, now, op, opsStarted, opsLimit>>

CaRollback(c) == TxRollback(c, "ca_rollback")

\* ensureDataIntegrity: the two COUNT(*) queries of Promise.all.
CaCount(c) ==
  /\ pc[c] = "ca_count"
  /\ Goto(c, IF db.products # {} /\ db.categories # {} THEN "rc_products" ELSE "ca_exists",
          loc[c])
  /\ UNCHANGED <<db, inTx, txSnap, lastRowid, cache, subjects, now, op, opsStarted, opsLimit>>

\* forceLoadSampleData: SELECT COUNT(*) FROM products WHERE sku = ? OR barcode = ?
CaExists(c) ==
  /\ pc[c] = "ca_exists"
  /\ Goto(c, IF \E p \in db.products : p.sku = SampleSku \/ p.barcode = SampleBarcode
               THEN "rc_products" ELSE "ca_insert",
          loc[c])
  /\ UNCHANGED <<db, inTx, txSnap, lastRowid, cache, subjects, now, op, opsStarted, opsLimit>>

\* forceLoadSampleData: INSERT INTO products of the sample row
CaInsert(c) ==
  /\ pc[c] = "ca_insert"
  /\ db' = InsertProduct(db, SampleSku, SampleBarcode, SampleStock)
  /\ lastRowid' = db.seqProducts + 1
  /\ Goto(c, "rc_products", loc[c])
  /\ UNCHANGED <<inTx, txSnap, cache, subjects, now, op, opsStarted, opsLimit>>

clearAllData(c) ==
  \/ CaStart(c)
  \/ CaBegin(c)
  \/ CaDeleteMovements(c)
  \/ CaDeleteProducts(c)
  \/ CaDeleteCategories(c)
  \/ CaCommit(c)
  \/ CaRollback(c)
  \/ CaCount(c)
  \/ CaExists(c)
  \/ CaInsert(c)

\* ---------------------------------- scan page and scan modal: updateStock
\* The quantities the user confirms: addStock(5), reduceStock(3), reduceStock(15).
ScanInputs == {5, -3, -15}

ScStart(c, code, quantity) ==
  /\ CanStart(c)
  /\ Begin(c, [NoOp EXCEPT !.name = "scanUpdateStock", !.barcode = code,
                           !.quantity = quantity])
  /\ Goto(c, "sc_search", loc[c])
  /\ UNCHANGED <<db, inTx, txSnap, lastRowid, cache, subjects, now>>

\* ScanPage.searchProduct: SELECT * FROM products WHERE barcode = ? OR sku = ? LIMIT 1.
\* The modal opens on the row; addStock / reduceStock check the quantity against
\* the modal's copy and call updateStock.
ScSearch(c) ==
  /\ pc[c] = "sc_search"
  /\ LET view == SelectProductByBarcode(db, op[c].barcode)
     IN IF view.id = 0 THEN Finish(c, "notfound", 0)
        ELSE IF op[c].quantity < 0 /\ -op[c].quantity > view.stock
        THEN Finish(c, "rejected", 0)
        ELSE Goto(c, "sc_update", [loc[c] EXCEPT !.product = view,
                                                  !.newStock = view.stock + op[c].quantity])
  /\ UNCHANGED <<db, inTx, txSnap, lastRowid, cache, subjects, now, op, opsStarted, opsLimit>>

\* updateStock: UPDATE products SET stock = ? WHERE id = ?
ScUpdate(c) ==
  /\ pc[c] = "sc_update"
  /\ db' = UpdateStockRow(db, loc[c].product.id, loc[c].newStock)
  /\ Finish(c, "ok", loc[c].newStock)
  /\ UNCHANGED <<inTx, txSnap, lastRowid, cache, subjects, now, op, opsStarted, opsLimit>>

scanUpdateStock(c) ==
  \/ \E quantity \in ScanInputs : ScStart(c, SampleBarcode, quantity)
  \/ ScSearch(c)
  \/ ScUpdate(c)

\* ------------------------------------------------ InventoryPage.saveProduct
Samsung == <<"S","a","m","s","u","n","g">>
Generic == <<"G","e","n","e","r","i","c">>

\* The form values: category, brand and stock.
FormInputs ==
  { [category |-> Electronicos, brand |-> Samsung, stock |-> 10],
    [category |-> General, brand |-> <<>>, stock |-> 0] }

\* generateBarcode draws on Date.now() and Math.random(): any of these.
GeneratedBarcodes == {"7890000000017", "7890000000024"}

\* generateAlternativeBarcode: the barcodes the do-while loop can end with.  It
\* leaves the loop on the first barcode that is not in existingBarcodes, and
\* after ten attempts on whatever the tenth one is.
generateAlternativeBarcode(existingBarcodes) == GeneratedBarcodes

\* Both code lists are known: generate the codes and call addProduct.
SpGenerate(c, o, skus, barcodes, ch) ==
  \E barcode \in generateAlternativeBarcode(barcodes) :
    /\ op' = [op EXCEPT ![c] =
                [o EXCEPT !.sku = generateCustomSKU(o.category,
                                    IF o.brand = <<>> THEN Generic ELSE o.brand, skus),
                          !.barcode = barcode]]
    /\ cache' = ch
    /\ Goto(c, "ap_insert", [loc[c] EXCEPT !.existingSKUs = skus,
                                            !.existingBarcodes = barcodes])

\* saveProduct once getAllSKUs has answered: getAllBarcodes looks into the cache.
SpFromBarcodes(c, o, skus, ch) ==
  LET ch1 == [ch EXCEPT !.fixed = getCache(@, "all_barcodes")]
  IN IF Fresh(ch.fixed, "all_barcodes")
     THEN SpGenerate(c, o, skus, ch.fixed["all_barcodes"].data, ch1)
     ELSE /\ op' = [op EXCEPT ![c] = o]
          /\ cache' = ch1
          /\ Goto(c, "sp_barcodes", [loc[c] EXCEPT !.existingSKUs = skus])

SpStart(c, form) ==
  /\ CanStart(c)
  /\ opsStarted' = opsStarted + 1
  /\ UNCHANGED opsLimit
  /\ LET o == [NoOp EXCEPT !.name = "saveProduct", !.category = form.category,
                            !.brand = form.brand, !.hasStock = TRUE, !.stock = form.stock]
         ch == [cache EXCEPT !.fixed = getCache(@, "all_skus")]
     IN IF Fresh(cache.fixed, "all_skus")
        THEN SpFromBarcodes(c, o, cache.fixed["all_skus"].data, ch)
        ELSE /\ op' = [op EXCEPT ![c] = o]
             /\ cache' = ch
             /\ Goto(c, "sp_skus", loc[c])
  /\ UNCHANGED <<db, inTx, txSnap, lastRowid, subjects, now>>

\* getAllSKUs: SELECT sku FROM products WHERE sku IS NOT NULL AND sku != ""
SpSkus(c) ==
  /\ pc[c] = "sp_skus"
  /\ LET skus == {p.sku : p \in {q \in db.products : q.sku # <<>>}}
     IN SpFromBarcodes(c, op[c], skus,
                       [cache EXCEPT !.fixed = Put(@, "all_skus", skus, LONG_CACHE_TTL)])
  /\ UNCHANGED <<db, inTx, txSnap, lastRowid, subjects, now, opsStarted, opsLimit>>

\* getAllBarcodes: SELECT barcode FROM products WHERE barcode IS NOT NULL AND barcode != ""
SpBarcodes(c) ==
  /\ pc[c] = "sp_barcodes"
  /\ LET barcodes == {p.barcode : p \in {q \in db.products : q.barcode # ""}}
     IN SpGenerate(c, op[c], loc[c].existingSKUs, barcodes,
                   [cache EXCEPT !.fixed = Put(@, "all_barcodes", barcodes, LONG_CACHE_TTL)])
  /\ UNCHANGED <<db, inTx, txSnap, lastRowid, subjects, now, opsStarted, opsLimit>>

saveProduct(c) ==
  \/ \E form \in FormInputs : SpStart(c, form)
  \/ SpSkus(c)
  \/ SpBarcodes(c)

refreshCache(c) == RcProducts(c) \/ RcCategories(c) \/ RcMovements(c)

Next ==
  \/ Tick
  \/ \E c \in Callers : addMovement(c)
  \/ \E c \in Callers : addProduct(c)
  \/ \E c \in Callers : updateProduct(c)
  \/ \E c \in Callers : deleteProduct(c)
  \/ \E c \in Callers : clearAllData(c)
  \/ \E c \in Callers : scanUpdateStock(c)
  \/ \E c \in Callers : saveProduct(c)
  \/ \E c \in Callers : refreshCache(c)

Spec == Init /\ [][Next]_vars

\* Product creation through the creation flow, one call after the other: a
\* call starts only when no other call is running.
AllIdle == \A c \in Callers : pc[c] = "idle"

NextCreate ==
  \/ Tick
  \/ \E c \in Callers, form \in FormInputs : AllIdle /\ SpStart(c, form)
  \/ \E c \in Callers : SpSkus(c)
  \/ \E c \in Callers : SpBarcodes(c)
  \/ \E c \in Callers : ApInsert(c)
  \/ \E c \in Callers : refreshCache(c)

SpecCreate == Init /\ [][NextCreate]_vars


\* ------------------------------------------------------------- cached reads
\* What the plugin does with the store query of a read call: it answers, or it
\* rejects (the call's op.type is then "rejected").
QueryFates == {"", "rejected"}

Rejected(c) == op[c].type = "rejected"

\* getProducts: the look into the cache; a hit returns the cached list.
GpStart(c, fate) ==
  /\ CanStart(c)
  /\ Begin(c, [NoOp EXCEPT !.name = "getProducts", !.type = fate])
  /\ cache' = [cache EXCEPT !.fixed = getCache(@, "all_products")]
  /\ IF Fresh(cache.fixed, "all_products")
       THEN Finish(c, "ok", cache.fixed["all_products"].data)
       ELSE Goto(c, "gp_query", loc[c])
  /\ UNCHANGED <<db, inTx, txSnap, lastRowid, subjects, now>>

\* getProductsFromDB answers: setCache('all_products', products), return products.
GpQuery(c) ==
  /\ pc[c] = "gp_query"
  /\ ~Rejected(c)
  /\ cache' = [cache EXCEPT !.fixed = setCache(@, "all_products", db.products)]
  /\ Finish(c, "ok", db.products)
  /\ UNCHANGED <<db, inTx, txSnap, lastRowid, subjects, now, op, opsStarted, opsLimit>>

\* executeSql rejects: getProducts has no catch, the error reaches the caller.
GpQueryFails(c) ==
  /\ pc[c] = "gp_query"
  /\ Rejected(c)
  /\ Finish(c, "error", 0)
  /\ UNCHANGED <<db, inTx, txSnap, lastRowid, cache, subjects, now, op, opsStarted, opsLimit>>

getProducts(c) == (\E fate \in QueryFates : GpStart(c, fate)) \/ GpQuery(c) \/ GpQueryFails(c)

\* getProductById called on its own.
GiStart(c, id, fate) ==
  /\ CanStart(c)
  /\ Begin(c, [NoOp EXCEPT !.name = "getProductById", !.id = id, !.type = fate])
  /\ cache' = [cache EXCEPT !.product = getCache(@, id)]
  /\ IF Fresh(cache.product, id)
       THEN Finish(c, "ok", cache.product[id].data)
       ELSE Goto(c, "gi_query", loc[c])
  /\ UNCHANGED <<db, inTx, txSnap, lastRowid, subjects, now>>

\* SELECT * FROM products WHERE id = ?: a row is cached and returned, else null.
GiQuery(c) ==
  /\ pc[c] = "gi_query"
  /\ ~Rejected(c)
  /\ LET product == SelectProductById(db, op[c].id)
     IN /\ cache' = IF product.id # 0
                      THEN [cache EXCEPT !.product = setCache(@, op[c].id, product)]
                      ELSE cache
        /\ Finish(c, "ok", product)
  /\ UNCHANGED <<db, inTx, txSnap, lastRowid, subjects, now, op, opsStarted, opsLimit>>

\* executeSql rejects: the catch block logs and rethrows.
GiQueryFails(c) ==
  /\ pc[c] = "gi_query"
  /\ Rejected(c)
  /\ Finish(c, "error", 0)
  /\ UNCHANGED <<db, inTx, txSnap, lastRowid, cache, subjects, now, op, opsStarted, opsLimit>>

getProductById(c) ==
  \/ \E id \in ProductIdInputs, fate \in QueryFates : GiStart(c, id, fate)
  \/ GiQuery(c)
  \/ GiQueryFails(c)

\* SELECT sku FROM products WHERE sku IS NOT NULL AND sku != ""
SelectSkus(d) == {p.sku : p \in {q \in d.products : q.sku # <<>>}}

\* SELECT barcode FROM products WHERE barcode IS NOT NULL AND barcode != ""
SelectBarcodes(d) == {p.barcode : p \in {q \in d.products : q.barcode # ""}}

\* getAllSKUs / getAllBarcodes called on their own; `key` is 'all_skus' or
\* 'all_barcodes'.
GlStart(c, key, fate) ==
  /\ CanStart(c)
  /\ Begin(c, [NoOp EXCEPT !.name = "getAllCodes", !.reason = key, !.type = fate])
  /\ cache' = [cache EXCEPT !.fixed = getCache(@, key)]
  /\ IF Fresh(cache.fixed, key)
       THEN Finish(c, "ok", cache.fixed[key].data)
       ELSE Goto(c, "gl_query", loc[c])
  /\ UNCHANGED <<db, inTx, txSnap, lastRowid, subjects, now>>

GlQuery(c) ==
  /\ pc[c] = "gl_query"
  /\ ~Rejected(c)
  /\ LET codes == IF op[c].reason = "all_skus" THEN SelectSkus(db) ELSE SelectBarcodes(db)
     IN /\ cache' = [cache EXCEPT !.fixed = Put(@, op[c].reason, codes, LONG_CACHE_TTL)]
        /\ Finish(c, "ok", codes)
  /\ UNCHANGED <<db, inTx, txSnap, lastRowid, subjects, now, op, opsStarted, opsLimit>>

\* executeSql rejects: the catch block logs and returns [].
GlQueryFails(c) ==
  /\ pc[c] = "gl_query"
  /\ Rejected(c)
  /\ Finish(c, "ok", {})
  /\ UNCHANGED <<db, inTx, txSnap, lastRowid, cache, subjects, now, op, opsStarted, opsLimit>>

getAllCodes(c) ==
  \/ \E key \in {"all_skus", "all_barcodes"}, fate \in QueryFates : GlStart(c, key, fate)
  \/ GlQuery(c)
  \/ GlQueryFails(c)

\* The DatabaseStats fields the model's tables determine.
Stats(products, categories, movements) ==
  [totalProducts |-> Cardinality(products),
   categoriesCount |-> Cardinality(categories),
   totalMovements |-> Cardinality(movements)]

\* The object getStats returns from its catch block.
ZeroStats == [totalProducts |-> 0, categoriesCount |-> 0, totalMovements |-> 0]

StStart(c, fate) ==
  /\ CanStart(c)
  /\ Begin(c, [NoOp EXCEPT !.name = "getStats", !.type = fate])
  /\ cache' = [cache EXCEPT !.fixed = getCache(@, "inventory_stats")]
  /\ IF Fresh(cache.fixed, "inventory_stats")
       THEN Finish(c, "ok", cache.fixed["inventory_stats"].data)
       ELSE Goto(c, "st_query", loc[c])
  /\ UNCHANGED <<db, inTx, txSnap, lastRowid, subjects, now>>

\* The first Promise.all: the aggregate over products and the category count.
StQuery(c) ==
  /\ pc[c] = "st_query"
  /\ Goto(c, "st_count", [loc[c] EXCEPT !.products = db.products,
                                         !.categories = ActiveCategories(db)])
  /\ UNCHANGED <<db, inTx, txSnap, lastRowid, cache, subjects, now, op, opsStarted, opsLimit>>

\* SELECT COUNT(*) FROM movements, then setCache('inventory_stats', result, 5 min).
StCount(c) ==
  /\ pc[c] = "st_count"
  /\ ~Rejected(c)
  /\ LET stats == Stats(loc[c].products, loc[c].categories, db.movements)
     IN /\ cache' = [cache EXCEPT !.fixed = Put(@, "inventory_stats", stats, DEFAULT_CACHE_TTL)]
        /\ Finish(c, "ok", stats)
  /\ UNCHANGED <<db, inTx, txSnap, lastRowid, subjects, now, op, opsStarted, opsLimit>>

\* One of the queries rejects (of the first Promise.all, or the movement count):
\* the catch block logs and returns the zero object.
StQueryFails(c) ==
  /\ pc[c] \in {"st_query", "st_count"}
  /\ Rejected(c)
  /\ Finish(c, "ok", ZeroStats)
  /\ UNCHANGED <<db, inTx, txSnap, lastRowid, cache, subjects, now, op, opsStarted, opsLimit>>

getStats(c) == (\E fate \in QueryFates : StStart(c, fate)) \/ StQuery(c) \/ StCount(c) \/ StQueryFails(c)

\* The cached reads, called by the pages while no write is running; a query may
\* be rejected by the plugin.
NextRead ==
  \/ Tick
  \/ \E c \in Callers : getProducts(c)
  \/ \E c \in Callers : getProductById(c)
  \/ \E c \in Callers : getAllCodes(c)
  \/ \E c \in Callers : getStats(c)

SpecRead == Init /\ [][NextRead]_vars

\* ------------------------------------------------- calls one after the other
\* The second row of sampleProducts in forceLoadSampleData.
OtherStock == 50

\* The tables with the first two sample products loaded.
InitDbTwo ==
  [products |-> {[id |-> 1, sku |-> SampleSku, barcode |-> SampleBarcode,
                  stock |-> SampleStock],
                 [id |-> 2, sku |-> OtherSku, barcode |-> OtherBarcode,
                  stock |-> OtherStock]},
   movements |-> {}, categories |-> {}, seqProducts |-> 2, seqMovements |-> 0,
   seqCategories |-> 0]

\* The service after initialization over the tables d, no call made yet.
InitFrom(d, limit) ==
  /\ db = d
  /\ inTx = FALSE
  /\ txSnap = d
  /\ lastRowid = d.seqProducts
  /\ cache = [fixed |-> [k \in {"all_products", "all_categories", "recent_movements"} |->
                           CASE k = "all_products" -> Entry(d.products, DEFAULT_CACHE_TTL)
                             [] k = "all_categories" -> Entry(ActiveCategories(d), DEFAULT_CACHE_TTL)
                             [] k = "recent_movements" -> Entry(d.movements, DEFAULT_CACHE_TTL)],
              product |-> EmptyMap, sku |-> EmptyMap, barcode |-> EmptyMap,
              category |-> EmptyMap]
  /\ subjects = [products |-> d.products, categories |-> ActiveCategories(d),
                 movements |-> d.movements]
  /\ now = 0
  /\ pc = [c \in Callers |-> "idle"]
  /\ op = [c \in Callers |-> NoOp]
  /\ loc = [c \in Callers |-> InitLoc]
  /\ result = [c \in Callers |-> NoResult]
  /\ opsStarted = 0
  /\ opsLimit = limit
  /\ localStorage = EmptyStorage
  /\ pinLog = NoPinLog
  /\ auth = NoSession
  /\ service = Ready

\* Calls the serial runs make.
MaxSerialOps == 3

\* The partial products of the serial runs: a stock, the other product's SKU,
\* the other product's barcode.
SerialPartials ==
  { [sku |-> <<>>, barcode |-> "", hasStock |-> TRUE, stock |-> 3],
    [sku |-> OtherSku, barcode |-> "", hasStock |-> FALSE, stock |-> 0],
    [sku |-> <<>>, barcode |-> OtherBarcode, hasStock |-> FALSE, stock |-> 0] }

SerialMovements ==
  { [type |-> "entrada", quantity |-> 5, reason |-> "ingreso"],
    [type |-> "entrada", quantity |-> 5, reason |-> "Entrada de inventario"] }

\* The calls come one after the other, all within the cache lifetimes (the
\* clock does not advance): a call starts only when no call is running.
NextSerial ==
  \/ \E m \in SerialMovements : AllIdle /\ AmStart("c1", 1, m)
  \/ \E c \in Callers : AmSelect(c) \/ AmBegin(c) \/ AmInsert(c) \/ AmUpdate(c)
  \/ \E c \in Callers : AmCommit(c) \/ AmRollback(c) \/ AmRowid(c)
  \/ \E p \in ProductInputs : AllIdle /\ ApStart("c1", p)
  \/ \E c \in Callers : ApInsert(c)
  \/ \E partial \in SerialPartials : AllIdle /\ UpStart("c1", 1, partial)
  \/ \E c \in Callers : UpSelect(c) \/ UpSku(c) \/ UpBarcode(c) \/ UpUpdate(c)
  \/ AllIdle /\ DpStart("c1", 2)
  \/ \E c \in Callers : DpSelect(c) \/ DpBegin(c) \/ DpDeleteMovements(c)
  \/ \E c \in Callers : DpDeleteProduct(c) \/ DpCommit(c)
  \/ \E key \in {"all_skus", "all_barcodes"} : AllIdle /\ GlStart("c1", key, "")
  \/ \E c \in Callers : GlQuery(c)
  \/ AllIdle /\ StStart("c1", "")
  \/ \E c \in Callers : StQuery(c) \/ StCount(c)
  \/ \E c \in Callers : refreshCache(c)

SpecSerial == InitFrom(InitDbTwo, MaxSerialOps) /\ [][NextSerial]_vars

\* ------------------------------------------------ refreshes that interleave
\* Product creations whose refreshCache runs interleave; nothing is deleted and
\* no transaction is opened, so every list read from the store is a committed
\* one and the stored products only grow.
NextPublish ==
  \/ \E c \in Callers : addProduct(c)
  \/ \E c \in Callers : refreshCache(c)

SpecPublish == Init /\ [][NextPublish]_vars

\* ------------------------------------------- generateAlternativeBarcode, the loop
\* `attempts < 10` in the loop condition.
AttemptLimit == 10

\* The lists of existing barcodes the function is called with.
ExistingBarcodeInputs == SUBSET (GeneratedBarcodes \cup {SampleBarcode})

\* The call: attempts = 0, no barcode yet.
GabStart(c, existingBarcodes) ==
  /\ CanStart(c)
  /\ Begin(c, [NoOp EXCEPT !.name = "generateAlternativeBarcode"])
  /\ Goto(c, "gab_loop", [loc[c] EXCEPT !.existingBarcodes = existingBarcodes,
                                         !.value = 0])
  /\ UNCHANGED <<db, inTx, txSnap, lastRowid, cache, subjects, now>>

\* One pass of the do-while: barcode = generateBarcode(); attempts++; the loop
\* goes on while the barcode is in the list and attempts < 10, otherwise the
\* function returns the barcode.
GabAttempt(c) ==
  /\ pc[c] = "gab_loop"
  /\ \E barcode \in GeneratedBarcodes :
       LET attempts == loc[c].value + 1
       IN /\ op' = [op EXCEPT ![c].barcode = barcode]
          /\ IF barcode \in loc[c].existingBarcodes /\ attempts < AttemptLimit
               THEN Goto(c, "gab_loop", [loc[c] EXCEPT !.value = attempts])
               ELSE Finish(c, "ok", attempts)
  /\ UNCHANGED <<db, inTx, txSnap, lastRowid, cache, subjects, now, opsStarted, opsLimit>>

NextBarcode ==
  \/ \E c \in Callers, existingBarcodes \in ExistingBarcodeInputs :
       GabStart(c, existingBarcodes)
  \/ \E c \in Callers : GabAttempt(c)

SpecBarcode == Init /\ [][NextBarcode]_vars

\* ------------------------------------------------- generateCustomSKU, called
\* A brand of three characters with a hyphen in it.
HyphenBrand == <<"A","-","B">>

\* SKUs an existing list can hold: ELE-SAM-001, ELE-SAM-002, ELE-A-B-001 and
\* the first sample product's.
ExistingSkuInputs ==
  SUBSET { <<"E","L","E","-","S","A","M","-","0","0","1">>,
           <<"E","L","E","-","S","A","M","-","0","0","2">>,
           <<"E","L","E","-","A","-","B","-","0","0","1">>,
           SampleSku }

GsStart(c, category, brand, existingSKUs) ==
  /\ CanStart(c)
  /\ Begin(c, [NoOp EXCEPT !.name = "generateCustomSKU", !.category = category,
                           !.brand = brand])
  /\ Goto(c, "gs_call", [loc[c] EXCEPT !.existingSKUs = existingSKUs])
  /\ UNCHANGED <<db, inTx, txSnap, lastRowid, cache, subjects, now>>

\* The function returns its SKU.
GsReturn(c) ==
  /\ pc[c] = "gs_call"
  /\ op' = [op EXCEPT ![c].sku =
              generateCustomSKU(op[c].category, op[c].brand, loc[c].existingSKUs)]
  /\ Finish(c, "ok", 0)
  /\ UNCHANGED <<db, inTx, txSnap, lastRowid, cache, subjects, now, opsStarted, opsLimit>>

NextSku ==
  \/ \E c \in Callers, category \in {Electronicos, General}, brand \in {Samsung, HyphenBrand},
        existingSKUs \in ExistingSkuInputs : GsStart(c, category, brand, existingSKUs)
  \/ \E c \in Callers : GsReturn(c)

SpecSku == Init /\ [][NextSku]_vars

\* ---------------------------------------------- parseCustomSKU of a generated SKU
\* The pattern without its end anchor: /^([A-Z]{3})-([A-Z]{3})-(\d{3})/
MatchesCustomSKU_Prefix(sku) ==
  /\ Len(sku) >= 11
  /\ \A i \in {1, 2, 3, 5, 6, 7} : sku[i] \in Letters
  /\ sku[4] = "-" /\ sku[8] = "-"
  /\ \A i \in {9, 10, 11} : sku[i] \in DigitSet

\* sku.match(/^([A-Z]{3})-([A-Z]{3})-(\d{3})$/)
MatchesCustomSKU(sku) ==
  /\ Len(sku) = 11
  /\ \A i \in {1, 2, 3, 5, 6, 7} : sku[i] \in Letters
  /\ sku[4] = "-" /\ sku[8] = "-"
  /\ \A i \in {9, 10, 11} : sku[i] \in DigitSet

\* Object.keys(CATEGORY_CODES).find(key => CATEGORY_CODES[key] === code) || 'Desconocida'
categoryName(categoryCode) ==
  IF \E key \in DOMAIN CATEGORY_CODES : CATEGORY_CODES[key] = categoryCode
  THEN CHOOSE key \in DOMAIN CATEGORY_CODES : CATEGORY_CODES[key] = categoryCode
  ELSE "Desconocida"

InvalidParse == [category |-> "", brand |-> <<>>, number |-> 0, isValid |-> FALSE]

parseCustomSKU(sku) ==
  IF ~MatchesCustomSKU(sku) THEN InvalidParse
  ELSE [category |-> categoryName(SubSeq(sku, 1, 3)), brand |-> SubSeq(sku, 5, 7),
        number |-> ParseInt(SubSeq(sku, 9, 11)), isValid |-> TRUE]

\* A brand of two characters that starts with a digit.
DigitBrand == <<"3","M">>

BrandInputs == {Samsung, DigitBrand, HyphenBrand, <<>>}

\* A caller generates a SKU and parses it.  `again` says whether the list of
\* existing SKUs is empty or holds the SKU generated from the empty list.
RtStart(c, category, brand, again) ==
  /\ CanStart(c)
  /\ Begin(c, [NoOp EXCEPT !.name = "parseGenerated", !.category = category,
                           !.brand = brand])
  /\ Goto(c, "rt_generate",
          [loc[c] EXCEPT !.existingSKUs =
             IF again THEN {generateCustomSKU(category, brand, {})} ELSE {}])
  /\ UNCHANGED <<db, inTx, txSnap, lastRowid, cache, subjects, now>>

RtGenerate(c) ==
  /\ pc[c] = "rt_generate"
  /\ op' = [op EXCEPT ![c].sku =
              generateCustomSKU(op[c].category, op[c].brand, loc[c].existingSKUs)]
  /\ Goto(c, "rt_parse", loc[c])
  /\ UNCHANGED <<db, inTx, txSnap, lastRowid, cache, subjects, now, opsStarted, opsLimit>>

RtParse(c) ==
  /\ pc[c] = "rt_parse"
  /\ Finish(c, "ok", parseCustomSKU(op[c].sku))
  /\ UNCHANGED <<db, inTx, txSnap, lastRowid, cache, subjects, now, op, opsStarted, opsLimit>>

NextRoundTrip ==
  \/ \E c \in Callers, category \in DOMAIN CATEGORY_CODES, brand \in BrandInputs,
        again \in BOOLEAN : RtStart(c, category, brand, again)
  \/ \E c \in Callers : RtGenerate(c)
  \/ \E c \in Callers : RtParse(c)

SpecRoundTrip == Init /\ [][NextRoundTrip]_vars

IsCall(c, name) == op[c].name = name

\* ------------------------------------------- generateBarcode and its validation
\* The loop of calculateEAN13CheckDigit from position i (1-based here) on, with
\* the weights the other way round: 3 at even 0-based positions, 1 at odd ones.
RECURSIVE WeightedSum_Swapped(_, _, _)
WeightedSum_Swapped(code, i, sum) ==
  IF i > Len(code) THEN sum
  ELSE WeightedSum_Swapped(code, i + 1,
                           sum + DigitValue(code[i]) * (IF (i - 1) % 2 = 0 THEN 3 ELSE 1))

\* The loop of calculateEAN13CheckDigit from position i (1-based here) on:
\* sum += digit * (i % 2 === 0 ? 1 : 3) with the code's 0-based i.
RECURSIVE WeightedSum(_, _, _)
WeightedSum(code, i, sum) ==
  IF i > Len(code) THEN sum
  ELSE WeightedSum(code, i + 1,
                   sum + DigitValue(code[i]) * (IF (i - 1) % 2 = 0 THEN 1 ELSE 3))

\* calculateEAN13CheckDigit with the weights the other way round.
calculateEAN13CheckDigit_Swapped(code) ==
  Digits[((10 - (WeightedSum_Swapped(code, 1, 0) % 10)) % 10) + 1]

\* ((10 - (sum % 10)) % 10).toString(), for a code of digits.
calculateEAN13CheckDigit(code) == Digits[((10 - (WeightedSum(code, 1, 0) % 10)) % 10) + 1]

\* s.slice(-8)
SliceLast8(s) == IF Len(s) <= 8 THEN s ELSE SubSeq(s, Len(s) - 7, Len(s))

\* generateBarcode without the random digit in the base code.
generateBarcode_NoSuffix(timestamp, random) ==
  LET baseCode == <<"7","8","9">> \o SliceLast8(timestamp)
  IN Append(baseCode, calculateEAN13CheckDigit(baseCode))

\* generateBarcode, with Date.now().toString() = timestamp and
\* Math.floor(Math.random() * 10) = random.
generateBarcode(timestamp, random) ==
  LET baseCode == <<"7","8","9">> \o SliceLast8(timestamp) \o <<Digits[random + 1]>>
  IN Append(baseCode, calculateEAN13CheckDigit(baseCode))

\* validateBarcodeFormat: 13 characters, /^\d{13}$/, the check digit.
validateBarcodeFormat(barcode) ==
  /\ Len(barcode) = 13
  /\ \A i \in 1..13 : barcode[i] \in DigitSet
  /\ barcode[13] = calculateEAN13CheckDigit(SubSeq(barcode, 1, 12))

\* Date.now().toString() at a few moments of 2025: thirteen digits.
TimestampInputs ==
  { <<"1","7","6","2","3","3","1","2","0","0","0">> \o <<a, b>> :
      a \in {"0", "7"}, b \in {"0", "4", "9"} }

\* Twelve-character bases of the strings handed to validateBarcodeFormat.
BaseInputs ==
  { <<"7","8","9","3","1","2","0","0","0","0","4","5">>,
    <<"1","2","3","4","5","6","7","8","9","0","1","2">>,
    <<"7","8","9","3","1","2","0","0","0","0","4","X">> }

\* The strings handed to validateBarcodeFormat: the bases with any last
\* character, the bases alone, fourteen characters, the empty string.
BarcodeInputs ==
  { Append(base, last) : base \in BaseInputs, last \in DigitSet \cup {"X"} }
    \cup BaseInputs
    \cup { base \o <<"0", "0">> : base \in BaseInputs }
    \cup { <<>> }

GbStart(c, timestamp, random) ==
  /\ CanStart(c)
  /\ AllIdle
  /\ Begin(c, [NoOp EXCEPT !.name = "generateBarcode", !.code = timestamp,
                           !.quantity = random])
  /\ Goto(c, "gb_call", loc[c])
  /\ UNCHANGED <<db, inTx, txSnap, lastRowid, cache, subjects, now>>

GbReturn(c) ==
  /\ pc[c] = "gb_call"
  /\ Finish(c, "ok", generateBarcode(op[c].code, op[c].quantity))
  /\ UNCHANGED <<db, inTx, txSnap, lastRowid, cache, subjects, now, op, opsStarted, opsLimit>>

\* validateBarcodeFormat of a given string, or of the barcode the caller's
\* generateBarcode has just returned.
VbStart(c, barcode) ==
  /\ CanStart(c)
  /\ AllIdle
  /\ Begin(c, [NoOp EXCEPT !.name = "validateBarcodeFormat", !.code = barcode,
                           !.reason = IF barcode \in BarcodeInputs THEN "given"
                                      ELSE "generated"])
  /\ Goto(c, "vb_call", loc[c])
  /\ UNCHANGED <<db, inTx, txSnap, lastRowid, cache, subjects, now>>

VbReturn(c) ==
  /\ pc[c] = "vb_call"
  /\ Finish(c, "ok", validateBarcodeFormat(op[c].code))
  /\ UNCHANGED <<db, inTx, txSnap, lastRowid, cache, subjects, now, op, opsStarted, opsLimit>>

NextEan ==
  \/ \E c \in Callers, timestamp \in TimestampInputs, random \in 0..9 :
       GbStart(c, timestamp, random)
  \/ \E c \in Callers : GbReturn(c)
  \/ \E c \in Callers, barcode \in BarcodeInputs : VbStart(c, barcode)
  \/ \E c \in Callers :
       /\ IsCall(c, "generateBarcode") /\ pc[c] = "idle"
       /\ VbStart(c, result[c].value)
  \/ \E c \in Callers : VbReturn(c)

SpecEan == Init /\ [][NextEan]_vars

\* -------------------------------------------------- generateBrandCode, called
\* The brands of the calls: those above, a brand whose letters and digits
\* alternate, a brand in lower case with a space, a blank.
BrandCodeInputs ==
  BrandInputs \cup { <<"A","1","B","2","C">>, <<"l","a"," ","k","e">>, <<" ">> }

BcStart(c, brand) ==
  /\ CanStart(c)
  /\ AllIdle
  /\ Begin(c, [NoOp EXCEPT !.name = "generateBrandCode", !.brand = brand])
  /\ Goto(c, "bc_call", loc[c])
  /\ UNCHANGED <<db, inTx, txSnap, lastRowid, cache, subjects, now>>

BcReturn(c) ==
  /\ pc[c] = "bc_call"
  /\ Finish(c, "ok", generateBrandCode(op[c].brand))
  /\ UNCHANGED <<db, inTx, txSnap, lastRowid, cache, subjects, now, op, opsStarted, opsLimit>>

NextBrand ==
  \/ \E c \in Callers, brand \in BrandCodeInputs : BcStart(c, brand)
  \/ \E c \in Callers : BcReturn(c)

SpecBrand == Init /\ [][NextBrand]_vars

\* --------------------------------------------- parseSKU and parseCustomSKU, called
\* validateSKUFormat: six characters, a code of CATEGORY_CODES, /^\d{3}$/.
validateSKUFormat(sku) ==
  /\ Len(sku) = 6
  /\ \E key \in DOMAIN CATEGORY_CODES : CATEGORY_CODES[key] = SubSeq(sku, 1, 3)
  /\ \A i \in {4, 5, 6} : sku[i] \in DigitSet

parseSKU(sku) ==
  IF ~validateSKUFormat(sku) THEN [category |-> "", number |-> 0, isValid |-> FALSE]
  ELSE [category |-> categoryName(SubSeq(sku, 1, 3)),
        number |-> ParseInt(SubSeq(sku, 4, 6)), isValid |-> TRUE]

\* The strings handed to the two functions.
SkuStringInputs ==
  { <<>>,
    <<"E","L","E","0","0","1">>,
    <<"R","O","P","0","1","5">>,
    <<"O","T","R","9","9","9">>,
    <<"X","Y","Z","0","0","1">>,
    <<"E","L","E","0","1">>,
    <<"E","L","E","0","0","1","1">>,
    <<"E","L","E","0","0","A">>,
    <<"e","l","e","0","0","1">>,
    <<"E","L","E","-","S","A","M","-","0","0","1">>,
    <<"R","O","P","-","N","I","K","-","0","1","2">>,
    <<"X","Y","Z","-","S","A","M","-","0","0","1">>,
    <<"E","L","E","-","S","A","M","-","0","1">>,
    <<"E","L","E","-","3","M","X","-","0","0","1">>,
    <<"E","L","E","-","S","A","M","-","0","0","1","2">>,
    <<"E","L","E","_","S","A","M","_","0","0","1">> }

PsStart(c, name, sku) ==
  /\ CanStart(c)
  /\ AllIdle
  /\ Begin(c, [NoOp EXCEPT !.name = name, !.code = sku])
  /\ Goto(c, "ps_call", loc[c])
  /\ UNCHANGED <<db, inTx, txSnap, lastRowid, cache, subjects, now>>

\* Neither function has a statement that can throw on a string.
PsReturn(c) ==
  /\ pc[c] = "ps_call"
  /\ Finish(c, "ok", IF IsCall(c, "parseSKU") THEN parseSKU(op[c].code)
                     ELSE parseCustomSKU(op[c].code))
  /\ UNCHANGED <<db, inTx, txSnap, lastRowid, cache, subjects, now, op, opsStarted, opsLimit>>

NextParse ==
  \/ \E c \in Callers, name \in {"parseSKU", "parseCustomSKU"}, sku \in SkuStringInputs :
       PsStart(c, name, sku)
  \/ \E c \in Callers : PsReturn(c)

SpecParse == Init /\ [][NextParse]_vars

\* ------------------------------------------------------ category operations
\* The tables of a database that holds two categories and two products, the
\* second product with categoryId = 1.  createTables gives the products table
\* no categoryId column and no statement of the service writes one: a product
\* has a categoryId only in a database file that an earlier schema created.
InitDbCategories ==
  [products |-> {[id |-> 1, sku |-> SampleSku, barcode |-> SampleBarcode,
                  stock |-> SampleStock, categoryId |-> 0],
                 [id |-> 2, sku |-> OtherSku, barcode |-> OtherBarcode,
                  stock |-> OtherStock, categoryId |-> 1]},
   movements |-> {},
   categories |-> {[id |-> 1, name |-> Electronicos, isActive |-> TRUE],
                   [id |-> 2, name |-> "Ropa", isActive |-> TRUE]},
   seqProducts |-> 2, seqMovements |-> 0, seqCategories |-> 2]

HasCategory(d, id) == \E k \in d.categories : k.id = id

NoCategory == [id |-> 0, name |-> "", isActive |-> FALSE]

\* SELECT * FROM categories WHERE id = ?  (rows.item(0) or null)
SelectCategoryById(d, id) ==
  IF HasCategory(d, id) THEN CHOOSE k \in d.categories : k.id = id ELSE NoCategory

\* SELECT COUNT(*) as count FROM products WHERE categoryId = ?
CountProductsOfCategory(d, id) == Cardinality({p \in d.products : p.categoryId = id})

\* A DELETE in the place of deleteCategory's UPDATE.
SoftDelete_Hard(d, id) == [d EXCEPT !.categories = {k \in @ : k.id # id}]

\* UPDATE categories SET isActive = 0, updatedAt = CURRENT_TIMESTAMP WHERE id = ?
SoftDelete(d, id) ==
  [d EXCEPT !.categories = {IF k.id = id THEN [k EXCEPT !.isActive = FALSE] ELSE k : k \in @}]

\* The call: the check of the id.
DcStart(c, id) ==
  /\ CanStart(c)
  /\ Begin(c, [NoOp EXCEPT !.name = "deleteCategory", !.id = id])
  /\ IF id <= 0 THEN Finish(c, "invalid", 0) ELSE Goto(c, "dc_count", loc[c])
  /\ UNCHANGED <<db, inTx, txSnap, lastRowid, cache, subjects, now>>

\* The count of the products that use the category: with any, the call throws.
DcCount(c) ==
  /\ pc[c] = "dc_count"
  /\ IF CountProductsOfCategory(db, op[c].id) > 0 THEN Finish(c, "referenced", 0)
     ELSE Goto(c, "dc_update", loc[c])
  /\ UNCHANGED <<db, inTx, txSnap, lastRowid, cache, subjects, now, op, opsStarted, opsLimit>>

\* The soft delete, the invalidations, then refreshCache; the call returns
\* rowsAffected > 0.
DcUpdate(c) ==
  /\ pc[c] = "dc_update"
  /\ db' = SoftDelete(db, op[c].id)
  /\ cache' = clearCache(clearCache(cache, "fixed", "all_categories"), "category", op[c].id)
  /\ Goto(c, "rc_products",
          [loc[c] EXCEPT !.value = IF HasCategory(db, op[c].id) THEN 1 ELSE 0])
  /\ UNCHANGED <<inTx, txSnap, lastRowid, subjects, now, op, opsStarted, opsLimit>>

deleteCategory(c) ==
  \/ \E id \in {0, 1, 2} : DcStart(c, id)
  \/ DcCount(c)
  \/ DcUpdate(c)

\* createCategory: the checks of name and code; the code goes with the name.
CcStart(c, name) ==
  /\ CanStart(c)
  /\ Begin(c, [NoOp EXCEPT !.name = "createCategory", !.category = name])
  /\ IF name = "" THEN Finish(c, "invalid", 0) ELSE Goto(c, "cc_insert", loc[c])
  /\ UNCHANGED <<db, inTx, txSnap, lastRowid, cache, subjects, now>>

\* INSERT INTO categories: name and code are UNIQUE.
CcInsert(c) ==
  /\ pc[c] = "cc_insert"
  /\ IF \E k \in db.categories : k.name = op[c].category
       THEN /\ Finish(c, "duplicate", 0)
            /\ UNCHANGED <<db, lastRowid, cache>>
       ELSE /\ db' = [db EXCEPT !.categories = @ \cup {[id |-> db.seqCategories + 1,
                                                         name |-> op[c].category,
                                                         isActive |-> TRUE]},
                                !.seqCategories = @ + 1]
            /\ lastRowid' = db.seqCategories + 1
            /\ cache' = clearCache(cache, "fixed", "all_categories")
            /\ Goto(c, "rc_products", [loc[c] EXCEPT !.value = db.seqCategories + 1])
  /\ UNCHANGED <<inTx, txSnap, subjects, now, op, opsStarted, opsLimit>>

createCategory(c) ==
  \/ \E name \in {"", "Ropa", "Hogar"} : CcStart(c, name)
  \/ CcInsert(c)

\* updateCategory(id, {isActive}): the check of the id, then getCategoryById's
\* look into the cache.
UcStart(c, id, isActive) ==
  /\ CanStart(c)
  /\ Begin(c, [NoOp EXCEPT !.name = "updateCategory", !.id = id, !.hasStock = isActive])
  /\ cache' = [cache EXCEPT !.category = getCache(@, id)]
  /\ IF id <= 0 THEN Finish(c, "invalid", 0)
     ELSE IF Fresh(cache.category, id)
     THEN Goto(c, "uc_update", [loc[c] EXCEPT !.categories = {cache.category[id].data}])
     ELSE Goto(c, "uc_select", loc[c])
  /\ UNCHANGED <<db, inTx, txSnap, lastRowid, subjects, now>>

\* getCategoryById: SELECT * FROM categories WHERE id = ?
UcSelect(c) ==
  /\ pc[c] = "uc_select"
  /\ LET existing == SelectCategoryById(db, op[c].id)
     IN IF existing.id = 0
        THEN /\ Finish(c, "notfound", 0)
             /\ UNCHANGED cache
        ELSE /\ cache' = [cache EXCEPT !.category = setCache(@, op[c].id, existing)]
             /\ Goto(c, "uc_update", [loc[c] EXCEPT !.categories = {existing}])
  /\ UNCHANGED <<db, inTx, txSnap, lastRowid, subjects, now, op, opsStarted, opsLimit>>

\* UPDATE categories SET name = ?, ..., isActive = ? WHERE id = ?  with the merged
\* record { ...existing, ...category }; a name another row has violates UNIQUE.
UcUpdate(c) ==
  /\ pc[c] = "uc_update"
  /\ LET existing == CHOOSE k \in loc[c].categories : TRUE
     IN IF \E k \in db.categories : k.id # op[c].id /\ k.name = existing.name
             /\ HasCategory(db, op[c].id)
        THEN /\ Finish(c, "duplicate", 0)
             /\ UNCHANGED <<db, cache>>
        ELSE /\ db' = [db EXCEPT !.categories =
                         {IF k.id = op[c].id
                            THEN [id |-> k.id, name |-> existing.name,
                                  isActive |-> op[c].hasStock]
                            ELSE k : k \in @}]
             /\ cache' = clearCache(clearCache(cache, "fixed", "all_categories"),
                                    "category", op[c].id)
             /\ Goto(c, "rc_products",
                     [loc[c] EXCEPT !.value = IF HasCategory(db, op[c].id) THEN 1 ELSE 0])
  /\ UNCHANGED <<inTx, txSnap, lastRowid, subjects, now, op, opsStarted, opsLimit>>

updateCategory(c) ==
  \/ \E id \in {1, 2, 3}, isActive \in BOOLEAN : UcStart(c, id, isActive)
  \/ UcSelect(c)
  \/ UcUpdate(c)

NextCategory ==
  \/ \E c \in Callers : deleteCategory(c)
  \/ \E c \in Callers : createCategory(c)
  \/ \E c \in Callers : updateCategory(c)
  \/ \E c \in Callers : refreshCache(c)

SpecCategory == InitFrom(InitDbCategories, MaxOps) /\ [][NextCategory]_vars

\* ------------------------------------------------------ movement statistics
RECURSIVE SumQuantity(_)
\* movements.forEach(m => total += m.quantity) over the rows of a set.
SumQuantity(movements) ==
  IF movements = {} THEN 0
  ELSE LET m == CHOOSE x \in movements : TRUE
       IN m.quantity + SumQuantity(movements \ {m})

\* MovementsService.getMovements(): FROM movements m INNER JOIN products p ON
\* m.productId = p.id, without filters.
JoinedMovements(d) == {m \in d.movements : \E p \in d.products : p.id = m.productId}

ZeroMovementStats ==
  [totalEntradas |-> 0, totalSalidas |-> 0, ventasTotal |-> 0,
   perdidasTotal |-> 0, ingresosTotal |-> 0, devolucionesTotal |-> 0]

\* The loop of getMovementStats: a row of type 'entrada' goes to the inflow
\* branch, every other row to the else branch.
MovementStats(movements) ==
  LET entradas == {m \in movements : m.type = "entrada"}
      others == {m \in movements : m.type # "entrada"}
  IN [totalEntradas |-> SumQuantity(entradas),
      totalSalidas |-> SumQuantity(others),
      ventasTotal |-> SumQuantity({m \in others : m.reason = "venta"}),
      perdidasTotal |-> SumQuantity({m \in others : m.reason = "perdida"}),
      ingresosTotal |-> SumQuantity({m \in entradas : m.reason = "ingreso"}),
      devolucionesTotal |-> SumQuantity({m \in entradas : m.reason = "devolucion"})]

MsStart(c) ==
  /\ CanStart(c)
  /\ Begin(c, [NoOp EXCEPT !.name = "getMovementStats"])
  /\ Goto(c, "ms_query", loc[c])
  /\ UNCHANGED <<db, inTx, txSnap, lastRowid, cache, subjects, now>>

\* The query of getMovements and the loop over its rows; when the plugin is
\* missing or the query fails the statistics are all zero.
MsQuery(c) ==
  /\ pc[c] = "ms_query"
  /\ \E fate \in {"ok", "error"} :
       IF fate = "ok" THEN Finish(c, "ok", MovementStats(JoinedMovements(db)))
       ELSE Finish(c, "caught", ZeroMovementStats)
  /\ UNCHANGED <<db, inTx, txSnap, lastRowid, cache, subjects, now, op, opsStarted, opsLimit>>

\* Movements of every type are recorded one after the other, and the
\* statistics are asked for in between.
NextMovementStats ==
  \/ \E m \in MovementInputs : AllIdle /\ AmStart("c1", 1, m)
  \/ \E c \in Callers : AmSelect(c) \/ AmBegin(c) \/ AmInsert(c) \/ AmUpdate(c)
  \/ \E c \in Callers : AmCommit(c) \/ AmRollback(c) \/ AmRowid(c)
  \/ \E c \in Callers : AllIdle /\ MsStart(c)
  \/ \E c \in Callers : MsQuery(c)
  \/ \E c \in Callers : refreshCache(c)

SpecMovementStats == InitFrom(InitDb, MaxSerialOps) /\ [][NextMovementStats]_vars

\* ------------------------------------------------------------- PinService
\* Failed attempts that lock the user, and the lockout window in clock units
\* (5 * 60 * 1000 ms).
MAX_PIN_ATTEMPTS == 3
LOCKOUT_DURATION == 1

\* Calls to PinService over a run.
MaxPinOps == 6

\* 'scanshelf_secure_salt_2024' as char codes.
SaltCodes ==
  <<115, 99, 97, 110, 115, 104, 101, 108, 102, 95, 115, 101, 99, 117, 114, 101, 95,
    115, 97, 108, 116, 95, 50, 48, 50, 52>>

\* charCodeAt of the characters of a PIN.
PinCodes(pin) == [i \in 1..Len(pin) |-> 48 + DigitValue(pin[i])]

RECURSIVE HashCodes(_, _, _)
\* hash = ((hash << 5) - hash) + char; hash = hash & hash, over codes[i..]: the
\* 32-bit value 31 * hash + char, kept as its two 16-bit halves <<high, low>>.
HashCodes(codes, i, hash) ==
  IF i > Len(codes) THEN hash
  ELSE LET low == 31 * hash[2] + codes[i]
           high == 31 * hash[1] + (low \div 65536)
       IN HashCodes(codes, i + 1, <<high % 65536, low % 65536>>)

\* hashPin(pin): the hash of pin + salt; toString(36) is one-to-one.
hashPin(pin) == HashCodes(PinCodes(pin) \o SaltCodes, 1, <<0, 0>>)

\* /^\d{6}$/
validatePinFormat(pin) == Len(pin) = 6 /\ \A i \in 1..Len(pin) : pin[i] \in DigitSet

weakPins ==
  {[i \in 1..6 |-> Digits[d]] : d \in 1..10} \cup
  {<<"1","2","3","4","5","6">>, <<"6","5","4","3","2","1">>,
   <<"0","1","2","3","4","5">>, <<"5","4","3","2","1","0">>}

hasConsecutiveDigits(pin) ==
  \E i \in 1..(Len(pin) - 2) :
    LET num1 == DigitValue(pin[i])
        num2 == DigitValue(pin[i + 1])
        num3 == DigitValue(pin[i + 2])
    IN \/ num2 = num1 + 1 /\ num3 = num2 + 1
       \/ num2 = num1 - 1 /\ num3 = num2 - 1

validatePinSecurity(pin) == pin \notin weakPins /\ ~hasConsecutiveDigits(pin)

\* attempts.filter(...) that keeps every attempt
RecentAttempts_Ever(ls, t) == ls.scanshelf_pin_attempts

\* attempts.filter(attempt => Date.now() - attempt.timestamp < LOCKOUT_DURATION)
RecentAttempts(ls, t) ==
  SelectSeq(ls.scanshelf_pin_attempts, LAMBDA stamp : t - stamp < LOCKOUT_DURATION)

SetMaxOf(a, b) == IF a > b THEN a ELSE b

\* Without the item the answer is MAX_PIN_ATTEMPTS; an attempts item always
\* holds at least one attempt.
getRemainingAttempts(ls, t) ==
  SetMaxOf(0, MAX_PIN_ATTEMPTS - Len(RecentAttempts(ls, t)))

isUserLocked(ls, t) == getRemainingAttempts(ls, t) = 0

recordFailedAttempt(ls, t) ==
  [ls EXCEPT !.scanshelf_pin_attempts = Append(@, t)]

clearFailedAttempts(ls) == [ls EXCEPT !.scanshelf_pin_attempts = <<>>]

IsConfigured(ls) == ls.scanshelf_pin_config # NoConfig

\* A call of PinService runs to its return in one step.
PinReturns(c, o, status, value) ==
  /\ CanStart(c)
  /\ AllIdle
  /\ Begin(c, o)
  /\ result' = [result EXCEPT ![c] = [status |-> status, value |-> value]]
  /\ UNCHANGED <<db, inTx, txSnap, lastRowid, cache, subjects, now, pc, loc, auth,
               service>>

\* The answer of verifyPin(pin) and the storage it leaves.  The statuses:
\* "locked" ('Demasiados intentos fallidos. Espera 5 minutos.'), "invalid"
\* ('PIN inválido'), "unconfigured" ('No hay PIN configurado'), "incorrect"
\* ('PIN incorrecto. n intentos restantes.', value n) and "bloqueado"
\* ('Demasiados intentos fallidos. Usuario bloqueado 5 minutos.').
verifyPinAnswer(ls, t, pin) ==
  IF isUserLocked(ls, t)
    THEN [status |-> "locked", value |-> 0, storage |-> ls]
  ELSE IF ~validatePinFormat(pin)
    THEN [status |-> "invalid", value |-> 0, storage |-> recordFailedAttempt(ls, t)]
  ELSE IF ~IsConfigured(ls)
    THEN [status |-> "unconfigured", value |-> 0, storage |-> ls]
  ELSE IF hashPin(pin) = ls.scanshelf_pin_config.pin
    THEN [status |-> "ok", value |-> 0,
          storage |-> [clearFailedAttempts(ls) EXCEPT !.scanshelf_pin_config.lastUsed = t]]
  ELSE LET recorded == recordFailedAttempt(ls, t)
           remainingAttempts == getRemainingAttempts(recorded, t)
       IN [status |-> IF remainingAttempts > 0 THEN "incorrect" ELSE "bloqueado",
           value |-> remainingAttempts, storage |-> recorded]

verifyPin(c, pin) ==
  LET answer == verifyPinAnswer(localStorage, now, pin)
  IN /\ PinReturns(c, [NoOp EXCEPT !.name = "verifyPin", !.code = pin],
                    answer.status, answer.value)
     /\ localStorage' = answer.storage
     /\ pinLog' = IF answer.status = "ok"
                    THEN [clearedBy |-> "verifyPin", answers |-> <<>>,
                          before |-> pinLog.answers]
                    ELSE [pinLog EXCEPT !.answers = Append(@, answer.status)]

\* configurePin(pin) with the default user name.
configurePin(c, pin) ==
  LET o == [NoOp EXCEPT !.name = "configurePin", !.code = pin]
  IN IF ~validatePinFormat(pin)
       THEN /\ PinReturns(c, o, "invalid", 0)
            /\ UNCHANGED <<localStorage, pinLog>>
     ELSE IF ~validatePinSecurity(pin)
       THEN /\ PinReturns(c, o, "weak", 0)
            /\ UNCHANGED <<localStorage, pinLog>>
     ELSE /\ PinReturns(c, o, "ok", 0)
          /\ localStorage' =
               clearFailedAttempts(
                 [localStorage EXCEPT !.scanshelf_pin_config =
                    [pin |-> hashPin(pin), createdAt |-> now, lastUsed |-> 0]])
          /\ pinLog' = [clearedBy |-> IF pinLog.clearedBy = "removePin"
                                        THEN "removePin, configurePin"
                                        ELSE "configurePin",
                        answers |-> <<>>, before |-> <<>>]

removePin(c) ==
  /\ PinReturns(c, [NoOp EXCEPT !.name = "removePin"], "ok", 0)
  /\ localStorage' = clearFailedAttempts([localStorage EXCEPT !.scanshelf_pin_config = NoConfig])
  /\ pinLog' = [clearedBy |-> "removePin", answers |-> <<>>, before |-> <<>>]

CorrectPin == <<"1","4","7","2","5","8">>
OtherPin == <<"1","5","9","3","5","7">>
ShortPin == <<"1","2","3","4","5">>
RepeatedPin == <<"1","1","1","1","1","1">>
StepsPin == <<"9","8","7","1","1","4">>

PinTick ==
  /\ now < MaxTime
  /\ now' = now + 1
  /\ UNCHANGED <<db, inTx, txSnap, lastRowid, cache, subjects, pc, op, loc, result, opsStarted, opsLimit>>
  /\ UNCHANGED <<localStorage, pinLog, auth, service>>

NextPin ==
  \/ PinTick
  \/ \E pin \in {CorrectPin, OtherPin, ShortPin, RepeatedPin} : verifyPin("c1", pin)
  \/ \E pin \in {CorrectPin, OtherPin, ShortPin, RepeatedPin, StepsPin} : configurePin("c1", pin)
  \/ removePin("c1")

SpecPin == InitFrom(InitDb, MaxPinOps) /\ [][NextPin]_vars

\* ------------------------------------------------------------- AuthService
\* 30 * 60 * 1000 ms in clock units.
SESSION_TIMEOUT == 6

\* The clock of the session runs and the calls made to AuthService and the guard.
MaxSessionTime == 8
MaxSessionOps == 4

\* isSessionValid(user): not older than the timeout since the login and not
\* idle for the timeout.
isSessionValid(user, t) ==
  /\ user.sessionId # ""
  /\ t - user.timestamp < SESSION_TIMEOUT
  /\ t - user.lastActivity < SESSION_TIMEOUT

isAuthenticated(a) == a.currentUser # NoUser

\* setCurrentUser(user) followed by startSessionTimer().
StartSession(user, t) == [currentUser |-> user, sessionTimer |-> t + SESSION_TIMEOUT]

\* A call of AuthService or of the guard runs to its return in one step.
AuthReturns(c, o, status) ==
  /\ CanStart(c)
  /\ AllIdle
  /\ Begin(c, o)
  /\ result' = [result EXCEPT ![c] = [status |-> status, value |-> 0]]
  /\ UNCHANGED <<db, inTx, txSnap, lastRowid, cache, subjects, now, pc, loc,
                 localStorage, pinLog, service>>

\* login with credentials of the accepted format, the user not locked out, or
\* with malformed ones; the record of login attempts is left out.
login(c, wellFormed) ==
  LET o == [NoOp EXCEPT !.name = "login", !.hasStock = wellFormed]
  IN IF wellFormed
       THEN /\ AuthReturns(c, o, "ok")
            /\ auth' = StartSession([guest |-> FALSE, timestamp |-> now,
                                     lastActivity |-> now, sessionId |-> "uuid"], now)
       ELSE /\ AuthReturns(c, o, "invalid")
            /\ UNCHANGED auth

guestLogin(c) ==
  /\ AuthReturns(c, [NoOp EXCEPT !.name = "guestLogin"], "ok")
  /\ auth' = StartSession([guest |-> TRUE, timestamp |-> now,
                           lastActivity |-> now, sessionId |-> "uuid"], now)

\* logout(): the timers cleared, the stored user removed, null published.
logout(c) ==
  /\ AuthReturns(c, [NoOp EXCEPT !.name = "logout"], "ok")
  /\ auth' = NoSession

\* A click, key press, scroll or touch: updateLastActivity().
updateLastActivity ==
  /\ AllIdle
  /\ isAuthenticated(auth)
  /\ ~auth.currentUser.guest
  /\ auth.currentUser.lastActivity # now
  /\ auth' = StartSession([auth.currentUser EXCEPT !.lastActivity = now], now)
  /\ UNCHANGED <<db, inTx, txSnap, lastRowid, cache, subjects, now, pc, op, loc, result,
                 opsStarted, opsLimit, localStorage, pinLog, service>>

\* The callback of sessionTimer, at its deadline or later: logout().
SessionTimerFires ==
  /\ AllIdle
  /\ auth.sessionTimer # NoTimer
  /\ now >= auth.sessionTimer
  /\ auth' = NoSession
  /\ UNCHANGED <<db, inTx, txSnap, lastRowid, cache, subjects, now, pc, op, loc, result,
                 opsStarted, opsLimit, localStorage, pinLog, service>>

\* authGuard on a navigation: through, or logout and back to the login page.
authGuard(c) ==
  LET o == [NoOp EXCEPT !.name = "authGuard"]
  IN IF isAuthenticated(auth) /\ isSessionValid(auth.currentUser, now)
       THEN /\ AuthReturns(c, o, "ok")
            /\ UNCHANGED auth
     ELSE IF isAuthenticated(auth)
       THEN /\ AuthReturns(c, o, "expired")
            /\ auth' = NoSession
     ELSE /\ AuthReturns(c, o, "unauthenticated")
          /\ UNCHANGED auth

SessionTick ==
  /\ now < MaxSessionTime
  /\ now' = now + 1
  /\ UNCHANGED <<db, inTx, txSnap, lastRowid, cache, subjects, pc, op, loc, result,
                 opsStarted, opsLimit, localStorage, pinLog, auth, service>>

NextSession ==
  \/ SessionTick
  \/ \E wellFormed \in BOOLEAN : login("c1", wellFormed)
  \/ guestLogin("c1")
  \/ logout("c1")
  \/ updateLastActivity
  \/ SessionTimerFires
  \/ authGuard("c1")

SpecSession == InitFrom(InitDb, MaxSessionOps) /\ [][NextSession]_vars

\* ------------------------------------- updateProduct with a category name
\* The tables after initialization with the sample products loaded: each
\* product row carries the name of its category, and the categories table is
\* empty (forceLoadSampleData inserts products only).
InitDbCategoryOnUse ==
  [products |-> {[id |-> 1, sku |-> SampleSku, barcode |-> SampleBarcode,
                  stock |-> SampleStock, category |-> Electronicos],
                 [id |-> 2, sku |-> OtherSku, barcode |-> OtherBarcode,
                  stock |-> OtherStock, category |-> "Ropa"]},
   movements |-> {}, categories |-> {}, seqProducts |-> 2, seqMovements |-> 0,
   seqCategories |-> 0]

MaxCategoryOps == 3

\* Category names a caller passes: one of the fixed table and two outside it.
CategoryNameInputs == {"Alimentacion", "Gourmet", "Vintage"}

\* updateProduct(id, {category}) once getProductById has answered: sku and
\* barcode are absent from the partial, so both uniqueness checks are skipped.
UkAfterProduct(c, o, existing) ==
  IF existing.id = 0 THEN Finish(c, "notfound", 0)
  ELSE IF o.category # "" /\ o.category # existing.category
  THEN Goto(c, "uk_category", [loc[c] EXCEPT !.product = existing])
  ELSE Goto(c, "uk_update", [loc[c] EXCEPT !.product = existing])

UkStart(c, id, name) ==
  /\ CanStart(c)
  /\ Begin(c, [NoOp EXCEPT !.name = "updateProduct", !.id = id, !.category = name])
  /\ cache' = [cache EXCEPT !.product = getCache(@, id)]
  /\ IF Fresh(cache.product, id) THEN UkAfterProduct(c, op'[c], cache.product[id].data)
     ELSE Goto(c, "uk_select", loc[c])
  /\ UNCHANGED <<db, inTx, txSnap, lastRowid, subjects, now>>

\* getProductById: SELECT * FROM products WHERE id = ?
UkSelect(c) ==
  /\ pc[c] = "uk_select"
  /\ LET existing == SelectProductById(db, op[c].id)
     IN /\ cache' = IF existing.id # 0
                      THEN [cache EXCEPT !.product = setCache(@, op[c].id, existing)]
                      ELSE cache
        /\ UkAfterProduct(c, op[c], existing)
  /\ UNCHANGED <<db, inTx, txSnap, lastRowid, subjects, now, op, opsStarted, opsLimit>>

\* SELECT id FROM categories WHERE name = ? AND isActive = 1
getCategoryIdByName(d, name) ==
  IF \E k \in d.categories : k.name = name /\ k.isActive
  THEN (CHOOSE k \in d.categories : k.name = name /\ k.isActive).id
  ELSE 0

\* categoryId = await getCategoryIdByName(product.category); without one the
\* call goes on to createCategory.
UkCategory(c) ==
  /\ pc[c] = "uk_category"
  /\ IF getCategoryIdByName(db, op[c].category) # 0
       THEN Goto(c, "uk_update", loc[c])
       ELSE Goto(c, "uk_insert", loc[c])
  /\ UNCHANGED <<db, inTx, txSnap, lastRowid, cache, subjects, now, op, opsStarted, opsLimit>>

\* The UNIQUE constraints of the categories table, on name and on code.
CategoryInsertAllowed(d, name, code) ==
  ~\E k \in d.categories : k.name = name \/ k.code = code

\* createCategory({name, code: getCategoryCodeByName(name)}): the INSERT; the
\* error of a violated constraint is thrown on through updateProduct.
UkInsert(c) ==
  /\ pc[c] = "uk_insert"
  /\ LET name == op[c].category
         code == getCategoryCode(name)
     IN IF CategoryInsertAllowed(db, name, code)
          THEN /\ db' = [db EXCEPT !.categories = @ \cup {[id |-> db.seqCategories + 1,
                                                            name |-> name, code |-> code,
                                                            isActive |-> TRUE]},
                                   !.seqCategories = @ + 1]
               /\ lastRowid' = db.seqCategories + 1
               /\ cache' = clearCache(cache, "fixed", "all_categories")
               /\ Goto(c, "uk_rc_products", loc[c])
          ELSE /\ Finish(c, "duplicate", 0)
               /\ UNCHANGED <<db, lastRowid, cache>>
  /\ UNCHANGED <<inTx, txSnap, subjects, now, op, opsStarted, opsLimit>>

\* createCategory's refreshCache, after which updateProduct goes on.
UkRcProducts(c) ==
  /\ pc[c] = "uk_rc_products"
  /\ Goto(c, "uk_rc_categories", [loc[c] EXCEPT !.products = db.products])
  /\ UNCHANGED <<db, inTx, txSnap, lastRowid, cache, subjects, now, op, opsStarted, opsLimit>>

UkRcCategories(c) ==
  /\ pc[c] = "uk_rc_categories"
  /\ Goto(c, "uk_rc_movements", [loc[c] EXCEPT !.categories = ActiveCategories(db)])
  /\ UNCHANGED <<db, inTx, txSnap, lastRowid, cache, subjects, now, op, opsStarted, opsLimit>>

UkRcMovements(c) ==
  /\ pc[c] = "uk_rc_movements"
  /\ subjects' = [products |-> loc[c].products, categories |-> loc[c].categories,
                  movements |-> db.movements]
  /\ cache' = [cache EXCEPT !.fixed =
                 setCache(setCache(setCache(@, "all_products", loc[c].products),
                                   "all_categories", loc[c].categories),
                          "recent_movements", db.movements)]
  /\ Goto(c, "uk_update", loc[c])
  /\ UNCHANGED <<db, inTx, txSnap, lastRowid, now, op, opsStarted, opsLimit>>

\* UPDATE products SET ..., category = ?, ... WHERE id = ?  with the merged
\* record, then the invalidations and refreshCache.
UkUpdate(c) ==
  /\ pc[c] = "uk_update"
  /\ db' = [db EXCEPT !.products =
              {IF p.id = op[c].id
                 THEN [p EXCEPT !.category = IF op[c].category # "" THEN op[c].category
                                             ELSE loc[c].product.category]
                 ELSE p : p \in @}]
  /\ cache' = clearCache(invalidateProductCache(cache), "product", op[c].id)
  /\ Goto(c, "rc_products",
          [loc[c] EXCEPT !.value = IF HasProduct(db, op[c].id) THEN 1 ELSE 0])
  /\ UNCHANGED <<inTx, txSnap, lastRowid, subjects, now, op, opsStarted, opsLimit>>

updateProductCategory(c) ==
  \/ \E id \in {1, 2, 3}, name \in CategoryNameInputs : UkStart(c, id, name)
  \/ UkSelect(c)
  \/ UkCategory(c)
  \/ UkInsert(c)
  \/ UkRcProducts(c)
  \/ UkRcCategories(c)
  \/ UkRcMovements(c)
  \/ UkUpdate(c)

NextCategoryOnUse ==
  \/ \E c \in Callers : updateProductCategory(c)
  \/ \E c \in Callers : refreshCache(c)

SpecCategoryOnUse == InitFrom(InitDbCategoryOnUse, MaxCategoryOps) /\ [][NextCategoryOnUse]_vars

\* ------------------------------------------- initializeDatabase and its run
\* The service as its constructor leaves it: no database opened, isReady false,
\* no initializationPromise, the cache and the subjects empty.
Unopened ==
  [isReady |-> FALSE, initializationPromise |-> "none", started |-> 0,
   at |-> "none", resume |-> "", storeFailed |-> FALSE]

MaxInitOps == 3
MaxInitRuns == 2

InitBoot ==
  /\ db = [products |-> {}, movements |-> {}, categories |-> {}, seqProducts |-> 0,
           seqMovements |-> 0, seqCategories |-> 0]
  /\ inTx = FALSE
  /\ txSnap = db
  /\ lastRowid = 0
  /\ cache = [fixed |-> EmptyMap, product |-> EmptyMap, sku |-> EmptyMap,
              barcode |-> EmptyMap, category |-> EmptyMap]
  /\ subjects = [products |-> {}, categories |-> {}, movements |-> {}]
  /\ now = 0
  /\ pc = [c \in Callers |-> "idle"]
  /\ op = [c \in Callers |-> NoOp]
  /\ loc = [c \in Callers |-> InitLoc]
  /\ result = [c \in Callers |-> NoResult]
  /\ opsStarted = 0
  /\ opsLimit = MaxInitOps
  /\ localStorage = EmptyStorage
  /\ pinLog = NoPinLog
  /\ auth = NoSession
  /\ service = Unopened

\* if (this.initializationPromise), with the flag in place of the promise
InitializationUnderWay_Ready(s) == s.isReady

\* if (this.initializationPromise)
InitializationUnderWay(s) == s.initializationPromise # "none"

\* this.initializationPromise = this.performInitialization(): the run goes up
\* to its first await, platform.ready(), and its promise is kept.
StartRun(s) ==
  [s EXCEPT !.started = @ + 1, !.at = "platform", !.resume = "",
            !.initializationPromise = "pending"]

\* initializeDatabase, as far as it runs before it returns the promise.
StartOrJoin(s) == IF InitializationUnderWay(s) THEN s ELSE StartRun(s)

\* The caller awaits the promise it was handed; loc.value numbers the run the
\* promise belongs to.
AwaitInit(c, o) ==
  /\ CanStart(c)
  /\ Begin(c, o)
  /\ pc' = [pc EXCEPT ![c] = "awaiting_init"]
  /\ loc' = [loc EXCEPT ![c].value = service'.started]
  /\ UNCHANGED <<db, inTx, txSnap, lastRowid, cache, subjects, now, result,
                 localStorage, pinLog, auth>>

initializeDatabase(c) ==
  /\ InitializationUnderWay(service) \/ service.started < MaxInitRuns
  /\ service' = StartOrJoin(service)
  /\ AwaitInit(c, [NoOp EXCEPT !.name = "initializeDatabase"])

\* isDatabaseReady, called by itself or as the first line of executeQuery:
\* without flag and promise it calls initializeDatabase, with a promise it
\* awaits the promise.
isDatabaseReady(c, name) ==
  /\ InitializationUnderWay(service) \/ service.started < MaxInitRuns
  /\ service' = IF ~service.isReady /\ service.initializationPromise = "none"
                  THEN StartOrJoin(service)
                  ELSE service
  /\ AwaitInit(c, [NoOp EXCEPT !.name = name])

\* The run as it goes on from the await of isDatabaseReady `next` stood behind:
\* "done" is the end of performInitialization's try block, "recovered" the end
\* of attemptRecovery, after which the catch block throws the error on.
ContinueAt(s, next) ==
  CASE next = "done" ->
         [s EXCEPT !.at = "done", !.isReady = TRUE, !.initializationPromise = "resolved"]
    [] next = "recovered" ->
         [s EXCEPT !.at = "failed", !.isReady = TRUE, !.initializationPromise = "rejected"]

\* executeQuery inside the run: await this.isDatabaseReady(), which awaits
\* initializationPromise while there is one.
AwaitReady(s, next) ==
  IF s.initializationPromise = "pending"
  THEN [s EXCEPT !.at = "awaiting_ready", !.resume = next]
  ELSE ContinueAt(s, next)

NextAt ==
  [at \in {"platform", "create", "pragma", "tables", "migrations", "indexes"} |->
     CASE at = "platform" -> "create"
       [] at = "create" -> "pragma"
       [] at = "pragma" -> "tables"
       [] at = "tables" -> "migrations"
       [] at = "migrations" -> "indexes"
       [] at = "indexes" -> "integrity"]

RunStep(s) ==
  /\ service' = s
  /\ UNCHANGED <<db, inTx, txSnap, lastRowid, cache, subjects, now, pc, op, loc, result,
                 opsStarted, opsLimit, localStorage, pinLog, auth>>

\* platform.ready, sqlite.create, PRAGMA, createTables, runMigrations,
\* createIndexes: each call into the store answers or fails.  runMigrations
\* swallows its errors; any other failure enters the catch block, which clears
\* isReady and awaits attemptRecovery.
performInitialization(ok) ==
  /\ service.at \in DOMAIN NextAt
  /\ RunStep(IF ok THEN [service EXCEPT !.at = NextAt[@]]
             ELSE IF service.at = "migrations"
             THEN [service EXCEPT !.at = NextAt[@], !.storeFailed = TRUE]
             ELSE [service EXCEPT !.at = "recover_tables", !.isReady = FALSE,
                                  !.storeFailed = TRUE])

\* ensureDataIntegrity: its two COUNT queries go through executeQuery.
ensureDataIntegrity ==
  /\ service.at = "integrity"
  /\ RunStep(AwaitReady(service, "done"))

\* attemptRecovery: createTables; its failure ends the recovery, and the catch
\* block of performInitialization throws the first error on.
attemptRecovery(ok) ==
  /\ service.at = "recover_tables"
  /\ RunStep(IF ok THEN [service EXCEPT !.at = "recover_sample"]
             ELSE [service EXCEPT !.at = "failed", !.initializationPromise = "rejected",
                                  !.storeFailed = TRUE])

\* forceLoadSampleData: its first query goes through executeQuery.
forceLoadSampleData ==
  /\ service.at = "recover_sample"
  /\ RunStep(AwaitReady(service, "recovered"))

\* The promise is settled: whoever awaits it goes on.  A caller of
\* initializeDatabase or isDatabaseReady returns; executeQuery runs its
\* statement, and on 'no such table' starts performInitialization once more.
\* The run itself goes on from where it awaited isDatabaseReady.
PromiseSettles(w) ==
  /\ service.initializationPromise \in {"resolved", "rejected"}
  /\ IF w \in Callers
       THEN /\ pc[w] = "awaiting_init"
            /\ IF service.initializationPromise = "rejected"
                 THEN /\ Finish(w, "error", 0)
                      /\ UNCHANGED service
                 ELSE \E tablesThere \in BOOLEAN :
                        IF op[w].name = "executeQuery" /\ ~tablesThere
                        THEN /\ pc' = [pc EXCEPT ![w] = "idle"]
                             /\ loc' = [loc EXCEPT ![w] = InitLoc]
                             /\ result' = [result EXCEPT ![w] = [status |-> "retried",
                                                                 value |-> 0]]
                             /\ service' = [service EXCEPT !.started = @ + 1,
                                                           !.at = "platform"]
                             /\ UNCHANGED <<localStorage, pinLog, auth>>
                        ELSE /\ Finish(w, "ok", IF service.isReady THEN 1 ELSE 0)
                             /\ UNCHANGED service
       ELSE /\ service.at = "awaiting_ready"
            /\ service' = ContinueAt(service, service.resume)
            /\ UNCHANGED <<pc, loc, result, localStorage, pinLog, auth>>
  /\ UNCHANGED <<db, inTx, txSnap, lastRowid, cache, subjects, now, op, opsStarted, opsLimit>>

NextInit ==
  \/ \E c \in Callers : initializeDatabase(c)
  \/ \E c \in Callers, name \in {"isDatabaseReady", "executeQuery"} : isDatabaseReady(c, name)
  \/ \E ok \in BOOLEAN : performInitialization(ok)
  \/ ensureDataIntegrity
  \/ \E ok \in BOOLEAN : attemptRecovery(ok)
  \/ forceLoadSampleData
  \/ \E w \in Callers \cup {"run"} : PromiseSettles(w)

SpecInit == InitBoot /\ [][NextInit]_vars

\* The event loop runs every continuation that is ready.
SpecInitLive == SpecInit /\ WF_vars(NextInit)

\* ------------------------------------------------------------------ claims
StockOf(d, id) == SelectProductById(d, id).stock

MovementsOf(d, id) == {m \in d.movements : m.productId = id}

LatestMovement(d, id) ==
  CHOOSE m \in MovementsOf(d, id) : \A n \in MovementsOf(d, id) : n.id <= m.id

Succeeded(c) == pc[c] = "idle" /\ result[c].status = "ok"

Failed(c) == pc[c] = "idle" /\ result[c].status \notin {"ok", "none"}

\* C1: two addMovement calls on product 1, an inflow of 5 and an outflow of 3
\* starting from stock 10, both successful, end with stock 12, and the movement
\* committed second starts from the stock the first one left.
C1_ConcurrentMovementsSerialize ==
  ( /\ opsStarted = 2
    /\ \A c \in Callers : IsCall(c, "addMovement") /\ Succeeded(c) /\ op[c].id = 1
    /\ \E c, d \in Callers :
         /\ op[c].type = "entrada" /\ op[c].quantity = 5
         /\ op[d].type = "salida" /\ op[d].quantity = 3 )
  => /\ StockOf(db, 1) = 12
     /\ \E m, n \in db.movements :
          /\ m.id < n.id
          /\ m.previousStock = SampleStock
          /\ n.previousStock = m.newStock
          /\ n.newStock = 12

\* C2: between completed operations, every product that has a movement has the
\* stock its most recently created movement recorded as newStock.
C2_StockEqualsLatestMovement ==
  (AllIdle /\ ~inTx) =>
    \A p \in db.products :
      MovementsOf(db, p.id) # {} => p.stock = LatestMovement(db, p.id).newStock

\* C3: no two products in the store share a sku, and no two share a barcode.
C3_CodesUnique ==
  \A p, q \in Committed.products :
    p.id # q.id => p.sku # q.sku /\ p.barcode # q.barcode

\* C4: between completed operations every product has stock >= 0.
C4_StockNonNegative ==
  (AllIdle /\ ~inTx) => \A p \in db.products : p.stock >= 0

\* C5: an addMovement call that fails persists neither its movement row nor its
\* stock change; so when every call made so far was an addMovement that failed,
\* the tables are as they were before the first of them.
C5_FailedMovementLeavesNoTrace ==
  ( /\ opsStarted = Cardinality({c \in Callers : ~IsCall(c, "none")})
    /\ \A c \in Callers : IsCall(c, "none") \/ (IsCall(c, "addMovement") /\ Failed(c)) )
  => /\ Committed.products = InitDb.products
     /\ Committed.movements = InitDb.movements

CommittedStockChanged(id) ==
  /\ HasProduct(Committed, id)
  /\ HasProduct(Committed', id)
  /\ StockOf(Committed, id) # StockOf(Committed', id)

\* C6: every change of a stored stock value happens in the same atomic step as
\* the insertion of a movement row from the old value to the new value.
C6_StockChangesOnlyWithMovement ==
  [][\A id \in 1..(MaxOps + 1) :
       CommittedStockChanged(id) =>
         \E m \in Committed'.movements \ Committed.movements :
           /\ m.productId = id
           /\ m.previousStock = StockOf(Committed, id)
           /\ m.newStock = StockOf(Committed', id)]_vars

\* The outflow call of caller c passes its stock check in this step.
PassesStockCheck(c) ==
  /\ pc[c] \in {"idle", "am_select"}
  /\ pc'[c] = "am_begin"
  /\ op'[c].type = "salida"

\* C7: an outflow whose quantity exceeds the product's current stock fails with
\* the insufficient-stock error: a call passes the check, at a moment when no
\* transaction is open, only with a quantity the stored stock covers.
C7_OutflowBeyondStockFails ==
  [][\A c \in Callers :
       (PassesStockCheck(c) /\ ~inTx) =>
         op'[c].quantity <= StockOf(db, op'[c].id)]_vars

\* C8: every movement row addMovement inserts has previousStock equal to the
\* product's stock before the insertion and newStock computed from it by type.
C8_MovementRowConsistent ==
  [][\A c \in Callers :
       (pc[c] = "am_insert" /\ pc'[c] = "am_update") =>
         \A m \in db'.movements \ db.movements :
           /\ m.previousStock = StockOf(db, m.productId)
           /\ m.newStock = NewStock(m.type, m.previousStock, m.quantity)]_vars

DeletionRunning(m) ==
  \E c \in Callers :
    /\ pc[c] # "idle"
    /\ \/ IsCall(c, "clearAllData")
       \/ IsCall(c, "deleteProduct") /\ op[c].id = m.productId

EleSamPrefix == <<"E","L","E","-","S","A","M","-">>

\* C10: two products created one after the other for Electronicos / Samsung get
\* the SKUs ELE-SAM-001 and ELE-SAM-002.
C10_SequentialSkus ==
  LET made == {p \in db.products : StartsWith(p.sku, EleSamPrefix)}
  IN Cardinality(made) = 2 =>
       {p.sku : p \in made} = {EleSamPrefix \o <<"0","0","1">>,
                               EleSamPrefix \o <<"0","0","2">>}


\* C11: while a key is unpopulated, concurrent reads of it share one load: no
\* two callers are both waiting for the store query of 'all_products'.
C11_SingleLoadInFlight ==
  \A c, d \in Callers : (pc[c] = "gp_query" /\ pc[d] = "gp_query") => c = d

\* The store query behind caller c's cached read fails in this step.
ReadQueryFails(c) ==
  /\ pc[c] \in {"gp_query", "gi_query", "gl_query", "st_query", "st_count"}
  /\ pc'[c] = "idle"
  /\ Rejected(c)

\* C17: when the store query behind a cached read fails, the caller receives
\* the error and the cache holds no entry for the key afterwards.
C17_ReadErrorReachesCaller ==
  [][\A c \in Callers :
       ReadQueryFails(c) =>
         /\ result'[c].status = "error"
         /\ IsCall(c, "getProducts") => "all_products" \notin DOMAIN cache'.fixed
         /\ IsCall(c, "getProductById") => op[c].id \notin DOMAIN cache'.product
         /\ IsCall(c, "getAllCodes") => op[c].reason \notin DOMAIN cache'.fixed
         /\ IsCall(c, "getStats") => "inventory_stats" \notin DOMAIN cache'.fixed]_vars

\* What the read behind each cached key returns from the tables d.
CurrentFixed(d, k) ==
  CASE k = "all_products" -> d.products
    [] k = "all_categories" -> ActiveCategories(d)
    [] k = "recent_movements" -> d.movements
    [] k = "all_skus" -> SelectSkus(d)
    [] k = "all_barcodes" -> SelectBarcodes(d)
    [] k = "inventory_stats" -> Stats(d.products, ActiveCategories(d), d.movements)

\* C12: after a mutation has completed, every cached read returns what the
\* store holds: each cache entry a read would still return agrees with the store.
C12_CacheAgreesWithStore ==
  (AllIdle /\ ~inTx) =>
    /\ \A k \in DOMAIN cache.fixed :
         Fresh(cache.fixed, k) => cache.fixed[k].data = CurrentFixed(db, k)
    /\ \A id \in DOMAIN cache.product :
         Fresh(cache.product, id) => cache.product[id].data = SelectProductById(db, id)
    /\ \A sku \in DOMAIN cache.sku :
         Fresh(cache.sku, sku) => cache.sku[sku].data = SelectProductBySku(db, sku)
    /\ \A barcode \in DOMAIN cache.barcode :
         Fresh(cache.barcode, barcode) =>
           cache.barcode[barcode].data = SelectProductByBarcode(db, barcode)

\* A product other than the one call o updates holds the sku or barcode o names.
HeldByOther(d, o) ==
  \E p \in d.products :
    /\ p.id # o.id
    /\ \/ o.sku # <<>> /\ p.sku = o.sku
       \/ o.barcode # "" /\ p.barcode = o.barcode

\* Caller c's updateProduct ends with the conflict error in this step.
EndsInConflict(c) ==
  /\ pc'[c] = "idle"
  /\ result'[c].status = "conflict"
  /\ pc[c] # "idle" \/ opsStarted' # opsStarted

\* C15: an updateProduct that changes the sku or barcode fails exactly when a
\* different product holds the value: it ends in conflict only if one does, and
\* it writes only if none does.
C15_ConflictExactlyWhenHeld ==
  [][\A c \in Callers :
       /\ EndsInConflict(c) => HeldByOther(db, op'[c])
       /\ (pc[c] = "up_update" /\ pc'[c] # "up_update") => ~HeldByOther(db, op[c])]_vars

\* C13: the stock an addMovement call decides on, and records as previousStock,
\* is the stock the store holds at that moment (no transaction being open),
\* never a cached value that differs from it.
C13_DecisionReadsStore ==
  [][\A c \in Callers :
       (pc[c] \in {"idle", "am_select"} /\ pc'[c] = "am_begin" /\ ~inTx) =>
         loc'[c].previousStock = StockOf(db, op'[c].id)]_vars

\* Caller c's addProduct executes its INSERT in this step.
AddProductInserts(c) == pc[c] = "ap_insert" /\ db'.products # db.products

\* C14: addProduct persists a product only when its stock is not negative and
\* no stored product has its sku or its barcode.
C14_AddProductValidates ==
  [][\A c \in Callers :
       AddProductInserts(c) =>
         /\ op[c].stock >= 0
         /\ \A p \in db.products : p.sku # op[c].sku /\ p.barcode # op[c].barcode]_vars

\* C16: the UPDATE of an updateProduct call whose partial has no stock leaves
\* the product's stored stock as it is.
C16_UpdateKeepsStock ==
  [][\A c \in Callers :
       (pc[c] = "up_update" /\ pc'[c] # "up_update" /\ ~op[c].hasStock) =>
         StockOf(db', op[c].id) = StockOf(db, op[c].id)]_vars

\* C18: published snapshots only get newer: with stored products that only
\* grow, every product products$ has shown is in each later publication.
C18_SnapshotsOnlyNewer ==
  [][\A p \in subjects.products : \E q \in subjects'.products : q.id = p.id]_vars

\* C19: generateAlternativeBarcode makes at most ten attempts and either
\* returns a barcode that is not in existingBarcodes or raises the
\* generation-exhausted error; it never returns a member of the list.
C19_AlternativeBarcodeIsNew ==
  [][\A c \in Callers :
       (pc[c] = "gab_loop" /\ pc'[c] = "idle") =>
         /\ result'[c].value <= AttemptLimit
         /\ \/ result'[c].status = "exhausted"
            \/ op'[c].barcode \notin loc[c].existingBarcodes]_vars

\* The CAT-BRD- prefix of caller c's generateCustomSKU call.
SkuPrefixOf(c) ==
  getCategoryCode(op[c].category) \o <<"-">> \o generateBrandCode(op[c].brand) \o <<"-">>

\* The sequence numbers of the SKUs in `skus` that start with `prefix`: the
\* number written after the prefix.
SequenceNumbers(skus, prefix) ==
  {ParseInt(SubSeq(sku, Len(prefix) + 1, Len(sku))) :
     sku \in {x \in skus : StartsWith(x, prefix)}} \ {-1}

\* C20: generateCustomSKU returns CAT-BRD-NNN where NNN is, in three digits,
\* one more than the largest sequence number among the existing SKUs with the
\* same prefix, or 001 when there is none; the SKU is never in existingSKUs.
C20_CustomSkuIsNext ==
  [][\A c \in Callers :
       (pc[c] = "gs_call" /\ pc'[c] = "idle") =>
         LET numbers == SequenceNumbers(loc[c].existingSKUs, SkuPrefixOf(c))
             next == IF numbers = {} THEN 1 ELSE SetMax(numbers) + 1
         IN /\ op'[c].sku = SkuPrefixOf(c) \o PadStart(NumToString(next), 3, "0")
            /\ Len(op'[c].sku) = Len(SkuPrefixOf(c)) + 3
            /\ op'[c].sku \notin loc[c].existingSKUs]_vars

\* C21: parseCustomSKU of a generated SKU is valid and yields the category the
\* SKU was generated for and its sequence number: 1 for an empty list, 2 when
\* the list holds the first result.
C21_ParseOfGenerated ==
  [][\A c \in Callers :
       (pc[c] = "rt_parse" /\ pc'[c] = "idle") =>
         /\ result'[c].value.isValid
         /\ result'[c].value.category = op[c].category
         /\ result'[c].value.number = IF loc[c].existingSKUs = {} THEN 1 ELSE 2]_vars

\* C22: every barcode generateBarcode returns has exactly 13 characters, all
\* digits, starts with 789 and is accepted by validateBarcodeFormat.
C22_GeneratedBarcodeIsValid ==
  \A c \in Callers :
    (IsCall(c, "generateBarcode") /\ Succeeded(c)) =>
      /\ Len(result[c].value) = 13
      /\ \A i \in 1..Len(result[c].value) : result[c].value[i] \in DigitSet
      /\ SubSeq(result[c].value, 1, 3) = <<"7","8","9">>
      /\ validateBarcodeFormat(result[c].value)

\* C22 witness: a generated barcode has been handed to validateBarcodeFormat,
\* which accepted it.
C22_Witness ==
  \E c \in Callers :
    /\ IsCall(c, "validateBarcodeFormat") /\ Succeeded(c)
    /\ op[c].reason = "generated"
    /\ result[c].value

\* The sum of the digits of s.
RECURSIVE DigitSum(_)
DigitSum(s) == IF s = <<>> THEN 0 ELSE DigitValue(Head(s)) + DigitSum(Tail(s))

\* The code's characters at the 0-based positions of the given parity among
\* the first twelve.
AtParity(code, parity) ==
  [k \in 1..6 |-> code[2 * k - 1 + parity]]

\* The check digit the claim describes: S is the sum over the first twelve
\* digits of digit times weight, 1 at even 0-based positions, 3 at odd ones.
ClaimedCheckDigit(code) ==
  LET S == DigitSum(AtParity(code, 0)) + 3 * DigitSum(AtParity(code, 1))
  IN Digits[((10 - (S % 10)) % 10) + 1]

\* C23: validateBarcodeFormat answers true exactly when the string has 13
\* characters, all digits, and its last digit is (10 - (S mod 10)) mod 10.
C23_ValidateExactly ==
  \A c \in Callers :
    (IsCall(c, "validateBarcodeFormat") /\ Succeeded(c)) =>
      (result[c].value <=>
         /\ Len(op[c].code) = 13
         /\ \A i \in 1..13 : op[c].code[i] \in DigitSet
         /\ op[c].code[13] = ClaimedCheckDigit(op[c].code))

\* C23 witness: validateBarcodeFormat has accepted one given string and
\* refused another of 13 digits.
C23_Witness ==
  \E c, d \in Callers :
    /\ IsCall(c, "validateBarcodeFormat") /\ Succeeded(c) /\ result[c].value
    /\ op[c].reason = "given"
    /\ IsCall(d, "validateBarcodeFormat") /\ Succeeded(d) /\ ~result[d].value
    /\ Len(op[d].code) = 13 /\ \A i \in 1..13 : op[d].code[i] \in DigitSet

\* The brand code as the claim derives it (a blank brand counted as empty).
ClaimedBrandCode(brand) ==
  IF Trim(brand) = <<>> THEN <<"G","E","N">>
  ELSE PadEnd(Substring3(Keep(ToUpperCase(brand), Letters \cup DigitSet)), 3, "X")

\* C24: the brand code is the brand in upper case without its non-alphanumeric
\* characters, cut to three characters and padded with X; GEN for an empty brand.
C24_BrandCodeAsDerived ==
  \A c \in Callers :
    (IsCall(c, "generateBrandCode") /\ Succeeded(c)) =>
      result[c].value = ClaimedBrandCode(op[c].brand)

\* s is three digits; their value.
IsThreeDigits(s) == Len(s) = 3 /\ \A i \in 1..3 : s[i] \in DigitSet

ThreeDigitValue(s) == 100 * DigitValue(s[1]) + 10 * DigitValue(s[2]) + DigitValue(s[3])

IsThreeLetters(s) == Len(s) = 3 /\ \A i \in 1..3 : s[i] \in Letters

\* The fixed patterns: a category code and three digits; three letters, a
\* hyphen, three letters, a hyphen, three digits.
FitsSimplePattern(sku) ==
  /\ Len(sku) = 6
  /\ SubSeq(sku, 1, 3) \in {CATEGORY_CODES[key] : key \in DOMAIN CATEGORY_CODES}
  /\ IsThreeDigits(SubSeq(sku, 4, 6))

FitsCustomPattern(sku) ==
  /\ Len(sku) = 11
  /\ IsThreeLetters(SubSeq(sku, 1, 3)) /\ IsThreeLetters(SubSeq(sku, 5, 7))
  /\ <<sku[4], sku[8]>> = <<"-", "-">>
  /\ IsThreeDigits(SubSeq(sku, 9, 11))

\* C25: parseSKU and parseCustomSKU never raise; on a string that does not fit
\* the pattern they answer isValid = false with an empty category and number 0,
\* on one that fits they answer isValid = true with the decoded parts.
C25_ParsersAreTotal ==
  \A c \in Callers :
    /\ (IsCall(c, "parseSKU") \/ IsCall(c, "parseCustomSKU")) /\ pc[c] = "idle"
         => result[c].status = "ok"
    /\ (IsCall(c, "parseSKU") /\ Succeeded(c)) =>
         IF FitsSimplePattern(op[c].code)
         THEN /\ result[c].value.isValid
              /\ result[c].value.number = ThreeDigitValue(SubSeq(op[c].code, 4, 6))
              /\ result[c].value.category \in DOMAIN CATEGORY_CODES
              /\ CATEGORY_CODES[result[c].value.category] = SubSeq(op[c].code, 1, 3)
         ELSE result[c].value = [category |-> "", number |-> 0, isValid |-> FALSE]
    /\ (IsCall(c, "parseCustomSKU") /\ Succeeded(c)) =>
         IF FitsCustomPattern(op[c].code)
         THEN /\ result[c].value.isValid
              /\ result[c].value.number = ThreeDigitValue(SubSeq(op[c].code, 9, 11))
              /\ result[c].value.brand = SubSeq(op[c].code, 5, 7)
              /\ \/ result[c].value.category = "Desconocida"
                 \/ CATEGORY_CODES[result[c].value.category] = SubSeq(op[c].code, 1, 3)
         ELSE /\ ~result[c].value.isValid
              /\ result[c].value.category = ""
              /\ result[c].value.number = 0

\* C25 witness: parseSKU has refused one string and parseCustomSKU has decoded
\* another.
C25_Witness ==
  \E c, d \in Callers :
    /\ IsCall(c, "parseSKU") /\ Succeeded(c) /\ ~result[c].value.isValid
    /\ IsCall(d, "parseCustomSKU") /\ Succeeded(d) /\ result[d].value.isValid

\* The step is one of caller c's deleteCategory call.
DeleteCategoryStep(c) ==
  \/ pc[c] \in {"dc_count", "dc_update"} /\ pc'[c] # pc[c]
  \/ pc[c] = "idle" /\ pc'[c] = "dc_count"

C27_StatsGroupByTypeAndReason ==
  [][\A c \in Callers :
       (pc[c] = "ms_query" /\ pc'[c] = "idle" /\ result'[c].status = "ok") =>
         LET read == JoinedMovements(db)
             stats == result'[c].value
         IN /\ stats.totalEntradas = SumQuantity({m \in read : m.type = "entrada"})
            /\ stats.totalSalidas = SumQuantity({m \in read : m.type = "salida"})
            /\ stats.ventasTotal = SumQuantity({m \in read : m.reason = "venta"})
            /\ stats.perdidasTotal = SumQuantity({m \in read : m.reason = "perdida"})
            /\ stats.ingresosTotal = SumQuantity({m \in read : m.reason = "ingreso"})
            /\ stats.devolucionesTotal = SumQuantity({m \in read : m.reason = "devolucion"})]_vars

\* The cache map and the key a cached read looks into.
ReadMap(k, o) == IF o.name = "getProductById" THEN k.product ELSE k.fixed

ReadKey(o) ==
  CASE o.name = "getProducts" -> "all_products"
    [] o.name = "getProductById" -> o.id
    [] o.name = "getAllCodes" -> o.reason
    [] o.name = "getStats" -> "inventory_stats"

\* The step is the start of a cached read of caller c.
ReadStarts(c) ==
  /\ opsStarted' # opsStarted
  /\ pc[c] = "idle"
  /\ <<pc'[c], op'[c], result'[c]>> # <<pc[c], op[c], result[c]>>
  /\ op'[c].name \in {"getProducts", "getProductById", "getAllCodes", "getStats"}

\* The read that starts is answered with the entry's data, without a query.
ServedFromCache(c) ==
  /\ pc'[c] = "idle"
  /\ result'[c] = [status |-> "ok", value |-> ReadMap(cache, op'[c])[ReadKey(op'[c])].data]
  /\ db' = db

PinCallStep(c, name) == opsStarted' # opsStarted /\ op'[c].name = name

\* Recorded failed attempts younger than the lockout window.
YoungAttempts ==
  Cardinality({i \in DOMAIN localStorage.scanshelf_pin_attempts :
                 now - localStorage.scanshelf_pin_attempts[i] < LOCKOUT_DURATION})

\* The answer to the k-th failed attempt of the window, as the claim has it.
FailureAnswer(k) ==
  IF k < MAX_PIN_ATTEMPTS
    THEN [status |-> "incorrect", value |-> MAX_PIN_ATTEMPTS - k]
    ELSE [status |-> "bloqueado", value |-> 0]

\* C29 as stated: with a PIN configured, the failed verifyPin attempts of one
\* lockout window are answered 2 attempts remaining, 1 attempt remaining,
\* locked; after three of them every verifyPin fails with the locked error.
C29_ThirdFailureLocks ==
  [][\A c \in Callers :
       (PinCallStep(c, "verifyPin") /\ IsConfigured(localStorage)) =>
         /\ YoungAttempts >= MAX_PIN_ATTEMPTS => result'[c].status = "locked"
         /\ (YoungAttempts < MAX_PIN_ATTEMPTS /\ result'[c].status # "ok") =>
              result'[c] = FailureAnswer(YoungAttempts + 1)]_vars

\* What verifyPin does with a PIN configured: the calls of one lockout window
\* that give a six-digit wrong PIN are answered 2 remaining, 1 remaining,
\* bloqueado, each recorded; a malformed PIN is recorded too and answered as
\* invalid; with three recorded attempts in the window every verifyPin, the
\* correct PIN included, fails with the locked error and changes nothing.
WrongPinsLock ==
  [][\A c \in Callers :
       (PinCallStep(c, "verifyPin") /\ IsConfigured(localStorage)) =>
         LET recorded == [localStorage EXCEPT !.scanshelf_pin_attempts = Append(@, now)]
         IN /\ YoungAttempts >= MAX_PIN_ATTEMPTS =>
                 result'[c].status = "locked" /\ localStorage' = localStorage
            /\ (YoungAttempts < MAX_PIN_ATTEMPTS /\ ~validatePinFormat(op'[c].code)) =>
                 result'[c].status = "invalid" /\ localStorage' = recorded
            /\ (/\ YoungAttempts < MAX_PIN_ATTEMPTS
                /\ validatePinFormat(op'[c].code)
                /\ result'[c].status # "ok") =>
                 /\ result'[c] = FailureAnswer(YoungAttempts + 1)
                 /\ localStorage' = recorded]_vars

\* C30: after the attempts were cleared by a successful verifyPin, or by
\* removePin followed by configurePin, the third of three consecutive failed
\* verifyPin calls is not answered as locked (bloqueado).
C30_ThirdAfterClearNotLocked ==
  [][\A c \in Callers :
       (/\ PinCallStep(c, "verifyPin")
        /\ pinLog.clearedBy \in {"verifyPin", "removePin, configurePin"}
        /\ Len(pinLog.answers) = MAX_PIN_ATTEMPTS - 1
        /\ result'[c].status # "ok") =>
         result'[c].status \notin {"bloqueado", "locked"}]_vars

\* C31: for a logged-in user who is no guest the guard lets the navigation
\* through exactly while less than 30 minutes have passed since the last
\* activity, however long ago the login was.
C31_TimeoutOnInactivityOnly ==
  [][\A c \in Callers :
       (/\ opsStarted' # opsStarted
        /\ op'[c].name = "authGuard"
        /\ isAuthenticated(auth)
        /\ ~auth.currentUser.guest) =>
         (result'[c].status = "ok" <=>
            now - auth.currentUser.lastActivity < SESSION_TIMEOUT)]_vars

\* C32: a deleteProduct of an existing product that succeeds leaves neither the
\* product nor a movement of it in the store; one that fails leaves the product
\* and its movements as they were; for an id without a product the call fails
\* as not found and changes nothing.  Stated for the calls beside which no other
\* deletion runs.
C32_DeleteProductAtomic ==
  [][\A c \in Callers :
       (/\ op'[c].name = "deleteProduct"
        /\ \A d \in Callers \ {c} : op'[d].name \notin {"deleteProduct", "clearAllData"}) =>
         /\ (pc[c] = "dp_commit" /\ pc'[c] = "rc_products") =>
              /\ ~HasProduct(db', op[c].id)
              /\ \A m \in db'.movements : m.productId # op[c].id
         /\ (pc[c] = "dp_rollback" /\ pc'[c] = "idle") =>
              /\ ~inTx'
              /\ HasProduct(db', op[c].id)
         /\ (pc[c] # "dp_begin" /\ pc'[c] = "dp_begin") => HasProduct(db, op'[c].id)
         /\ (pc[c] = "dp_select" /\ pc'[c] # pc[c] /\ ~HasProduct(db, op[c].id)) =>
              /\ pc'[c] = "idle"
              /\ result'[c].status = "notfound"
              /\ db' = db]_vars

\* C33: an updateProduct that sets a product's category to a name no category
\* row carries creates an active category of that name and goes on with the
\* update, for every such name.
C33_CategoryCreatedOnFirstUse ==
  [][\A c \in Callers :
       (/\ pc[c] = "uk_insert"
        /\ pc'[c] # "uk_insert"
        /\ ~\E k \in db.categories : k.name = op[c].category) =>
          /\ \E k \in db'.categories : k.name = op[c].category /\ k.isActive
          /\ pc'[c] = "uk_rc_products"]_vars

\* C34: however often and however interleaved initializeDatabase is called,
\* performInitialization is started at most once, and every call that awaits
\* the initialization awaits the promise of that one run.
C34_InitializationStartedOnce ==
  /\ service.started <= 1
  /\ \A c \in Callers : pc[c] = "awaiting_init" => loc[c].value = 1

\* Both callers have called initializeDatabase while the one run is under way.
C34_Witness ==
  /\ \A c \in Callers : pc[c] = "awaiting_init" /\ op[c].name = "initializeDatabase"
  /\ service.started = 1
  /\ service.initializationPromise = "pending"

\* C35: when no call into the store fails, the initialization promise is
\* eventually fulfilled with isReady set.
C35_InitializationCompletes ==
  <>(\/ service.storeFailed
     \/ service.initializationPromise = "resolved" /\ service.isReady)

\* Caller d has run a statement of its transaction and not yet its COMMIT.
MidTransaction(d) ==
  pc[d] \in {"am_update", "am_commit", "dp_delprod", "dp_commit",
             "ca_delprod", "ca_delcat", "ca_commit"}

\* Caller c runs the ROLLBACK of its executeTransaction.
RollsBack(c) ==
  /\ pc[c] \in {"am_rollback", "dp_rollback", "ca_rollback"}
  /\ pc'[c] # pc[c]

\* C36: the ROLLBACK one executeTransaction call runs, after a failed BEGIN or
\* a failed statement, leaves the statements another call has run in its own
\* transaction as they are.
C36_RollbackSparesOtherCall ==
  [][\A c \in Callers, d \in Callers :
       (c # d /\ RollsBack(c) /\ MidTransaction(d)) => db' = db]_vars

\* C37: every movement row of the store names a product row of the store.
C37_MovementsReferToProducts ==
  \A m \in db.movements : HasProduct(db, m.productId)

\* C38: the id addMovement returns is the id of a movement row with the
\* product, type, quantity and previous stock of that same call.
C38_ReturnedIdIsOwnRow ==
  [][\A c \in Callers :
       (pc[c] = "am_rowid" /\ pc'[c] # pc[c]) =>
         \E m \in db.movements :
           /\ m.id = loc'[c].value
           /\ m.productId = op[c].id
           /\ m.type = op[c].type
           /\ m.quantity = op[c].quantity
           /\ m.previousStock = loc[c].previousStock]_vars

\* C39: a verifyPin call made while three recorded failures are younger than
\* the lockout window is rejected as locked and leaves the storage as it is;
\* a verifyPin call with the configured PIN made when every recorded failure
\* is at least the lockout window old succeeds and clears the failures.
C39_LockoutEnds ==
  [][\A c \in Callers :
       PinCallStep(c, "verifyPin") =>
         /\ YoungAttempts >= MAX_PIN_ATTEMPTS =>
              /\ result'[c].status = "locked"
              /\ localStorage' = localStorage
         /\ (/\ IsConfigured(localStorage)
             /\ validatePinFormat(op'[c].code)
             /\ hashPin(op'[c].code) = localStorage.scanshelf_pin_config.pin
             /\ \A i \in DOMAIN localStorage.scanshelf_pin_attempts :
                  now - localStorage.scanshelf_pin_attempts[i] >= LOCKOUT_DURATION) =>
              /\ result'[c].status = "ok"
              /\ localStorage'.scanshelf_pin_attempts = <<>>]_vars

\* A verifyPin has succeeded after an earlier one was rejected as locked, with
\* no configurePin or removePin in between.
C39_Witness ==
  /\ op["c1"].name = "verifyPin"
  /\ result["c1"].status = "ok"
  /\ pinLog.clearedBy = "verifyPin"
  /\ \E i \in DOMAIN pinLog.before : pinLog.before[i] = "locked"

====
